---------------------------- MODULE Spec2Model ----------------------------
(***************************************************************************)
(* A model of the payment-payload normalization and facilitator-fallback   *)
(* layer of rook-monetized-services (src/index.js).                        *)
(*                                                                         *)
(* The specifications of the module:                                       *)
(*   SpecFac    one call at a time on the client returned by               *)
(*              createFallbackFacilitatorClient; the primary and the       *)
(*              fallback facilitator are the environment.                  *)
(*   SpecSig    normalizeSignaturePayload, its unwrap loop run step by     *)
(*              step against the ERC-6492 parser.                          *)
(*   SpecCanon  normalizeHexNonce and normalizeAddress applied to inputs   *)
(*              drawn from bounded families of strings.                    *)
(*   SpecNorm   normalizeIntegerString, normalizeAuthorizationPayload and  *)
(*              normalizePermit2AuthorizationPayload applied likewise.     *)
(*   SpecHook   the before-verify hook applied to payment payloads.        *)
(*   SpecReq    two requests in flight at once: hook, verify and settle    *)
(*              on the composed client, failure hooks, and what is logged. *)
(*                                                                         *)
(* JavaScript values are tagged records: [t |-> "undefined"],              *)
(* [t |-> "null"], [t |-> "string", s |-> <<characters>>],                 *)
(* [t |-> "number", n |-> ..] and objects with t = "object".  A string of  *)
(* the Canonicalizer or of an error message is the sequence of its         *)
(* characters.                                                             *)
(***************************************************************************)
EXTENDS Integers, Sequences, FiniteSets, TLC

VARIABLES
    \* ---- createFallbackFacilitatorClient: one call of the composed client
    fpc,        \* "idle" | "primary" | "fallback" | "done": where the call is
    fop,        \* "verify" | "settle" | "getSupported" | "none"
    fargs,      \* <<paymentPayload, paymentRequirements>> given by the caller
    fcalls,     \* the calls made so far on the two clients, in order
    finflight,  \* the clients whose promise is pending
    fprim,      \* how the primary's promise ended ("pending" before)
    ffb,        \* how the fallback's promise ended ("none" = never called)
    fout        \* how the composed call ended ("pending" before)

facVars == <<fpc, fop, fargs, fcalls, finflight, fprim, ffb, fout>>

VARIABLES
    \* ---- normalizeSignaturePayload: one call
    spc,        \* "idle" | "loop" | "done"
    sin,        \* the argument `signature`
    sparser,    \* "erc6492": the wrapper parser of the library;
                \* "arbitrary": a parser that may answer anything
    snested,    \* the call went through the {signature: <string>} case
    sres,       \* the locals normalized, changed, wasErc6492,
                \* erc6492Unwrapped, erc6492Depth, as a record
    sloop,      \* the loop variable `depth` of the for statement
    sraised,    \* an exception left the function
    \* history of the parser's answers, kept apart from the code's locals
    sparse,     \* number of calls of the parser
    sok,        \* number of answers that unwrapped a new hex value
    slast,      \* the value of the last such answer (the input before)
    sfailed     \* the parser threw or gave a missing / non-hex signature

sigVars == <<spc, sin, sparser, snested, sres, sloop, sraised,
             sparse, sok, slast, sfailed>>

VARIABLES
    \* ---- the Canonicalizer: one application of one function
    cpc,        \* "idle" | "done" | "raised"
    cfn,        \* the function applied
    cin,        \* its argument
    cout        \* what it returned

canonVars == <<cpc, cfn, cin, cout>>

VARIABLES
    \* ---- the requests in flight: for each request its position, the
    \* payment payload and requirements it carries, the calls it made on the
    \* facilitator clients, their answers, and the records it logged
    rq

reqVars == <<rq>>

vars == <<facVars, sigVars, canonVars, reqVars>>

nonFacVars == <<sigVars, canonVars, reqVars>>
nonSigVars == <<facVars, canonVars, reqVars>>
nonCanonVars == <<facVars, sigVars, reqVars>>
nonReqVars == <<facVars, sigVars, canonVars>>

----------------------------------------------------------------------------
(* Strings as sequences of characters.                                     *)

\* String.prototype.includes
Includes(s, needle) ==
    \E i \in 0..(Len(s) - Len(needle)) : SubSeq(s, i + 1, i + Len(needle)) = needle

Undefined == [t |-> "undefined"]
Null == [t |-> "null"]
Str(s) == [t |-> "string", s |-> s]
Num(n) == [t |-> "number", n |-> n]

sInvalidPayload == <<"i","n","v","a","l","i","d","_","p","a","y","l","o","a","d">>
sUnexpectedToken == <<"U","n","e","x","p","e","c","t","e","d"," ","t","o","k","e","n">>
sFailedToParse == <<"F","a","i","l","e","d"," ","t","o"," ","p","a","r","s","e">>

\* Messages and reason codes a facilitator client may put in an error.
sInsufficientFunds == <<"i","n","s","u","f","f","i","c","i","e","n","t","_","f","u","n","d","s">>
sFailedToFetch == <<"F","a","i","l","e","d"," ","t","o"," ","f","e","t","c","h">>
sUnsupportedScheme == <<"u","n","s","u","p","p","o","r","t","e","d","_","s","c","h","e","m","e">>
sUnexpectedTokenInJson == sUnexpectedToken \o <<" ","<"," ","i","n"," ","J","S","O","N">>
sVerifyInvalidPayload == <<"v","e","r","i","f","y",":"," ">> \o sInvalidPayload \o <<" ","(","4","0","0",")">>
sCouldNotParse == <<"5","0","2",":"," ">> \o sFailedToParse \o <<" ","b","o","d","y">>
sInvalidPayloadCaps == <<"I","N","V","A","L","I","D","_","P","A","Y","L","O","A","D">>

\* A thrown Error object; oid is the object's identity.
ErrorObject(oid, reason, message) ==
    [t |-> "object", oid |-> oid, invalidReason |-> reason, message |-> message]

\* JavaScript truthiness of a thrown value.
Truthy(v) ==
    CASE v.t \in {"undefined", "null"} -> FALSE
      [] v.t = "string" -> Len(v.s) > 0
      [] v.t = "number" -> v.n # 0
      [] OTHER -> TRUE

\* Property access error.invalidReason / error.message on a thrown value:
\* undefined on a primitive, the member on an object.
Member(v, key) == IF v.t = "object" THEN v[key] ELSE Undefined

shouldFallbackAnyFailure(error) == Truthy(error)

\* shouldFallbackForFacilitatorError, src/index.js:70-82
shouldFallbackForFacilitatorError(error) ==
    IF ~Truthy(error) THEN FALSE
    ELSE LET r == Member(error, "invalidReason")
             m == Member(error, "message")
             reason == IF r.t = "string" THEN r.s ELSE <<>>
             message == IF m.t = "string" THEN m.s ELSE <<>>
         IN  \/ reason = sInvalidPayload
             \/ Includes(message, sInvalidPayload)
             \/ Includes(message, sUnexpectedToken)
             \/ Includes(message, sFailedToParse)

----------------------------------------------------------------------------
(* The environment of the composed client: what callers pass and what the  *)
(* two facilitator clients answer.                                         *)

NumPayloads == 2
NumRequirements == 2
NumResults == 2

Payloads == 1..NumPayloads
Requirements == 1..NumRequirements
Results == 1..NumResults

\* Values a facilitator client's promise may reject with.  oid 1.. are the
\* primary's objects, 101.. the fallback's.
ErrorShapes ==
    { <<Undefined, Str(sInsufficientFunds)>>,
      <<Str(sInsufficientFunds), Str(sInsufficientFunds)>>,
      <<Str(sInvalidPayload), Undefined>>,
      <<Str(sInvalidPayload), Str(sFailedToFetch)>>,
      <<Str(sInvalidPayloadCaps), Str(sFailedToFetch)>>,
      <<Undefined, Str(sVerifyInvalidPayload)>>,
      <<Undefined, Str(sUnexpectedTokenInJson)>>,
      <<Str(sInsufficientFunds), Str(sCouldNotParse)>>,
      <<Str(sUnsupportedScheme), Str(sUnsupportedScheme)>>,
      <<Str(sUnsupportedScheme), Str(sUnexpectedTokenInJson)>>,
      <<Undefined, Str(sFailedToFetch)>>,
      <<Num(400), Num(400)>>,
      <<Undefined, Undefined>> }

ThrownBy(base) ==
    { ErrorObject(base + 1, sh[1], sh[2]) : sh \in ErrorShapes }
    \cup { Null, Undefined, Str(sInvalidPayload), Str(<<>>) }

PrimaryErrors == ThrownBy(0)
FallbackErrors == ThrownBy(100)

Returned(v) == [kind |-> "return", value |-> v]
Thrown(e) == [kind |-> "throw", error |-> e]
Pending == [kind |-> "pending"]
NotCalled == [kind |-> "none"]

Call(client, op, args) == [client |-> client, op |-> op, args |-> args]

CallsOn(client) == { i \in 1..Len(fcalls) : fcalls[i].client = client }

----------------------------------------------------------------------------
(* createFallbackFacilitatorClient, src/index.js:84-144.  An action is the *)
(* code that runs between two awaits.                                      *)

SigIdle ==
    /\ spc = "idle"
    /\ sin = [t |-> "undefined"]
    /\ sparser = "erc6492"
    /\ snested = FALSE
    /\ sres = [signature |-> [t |-> "undefined"], changed |-> FALSE, wasErc6492 |-> FALSE,
               erc6492Unwrapped |-> FALSE, erc6492Depth |-> 0]
    /\ sloop = 0
    /\ sraised = FALSE
    /\ sparse = 0
    /\ sok = 0
    /\ slast = [t |-> "undefined"]
    /\ sfailed = FALSE

CanonIdle ==
    /\ cpc = "idle"
    /\ cfn = "none"
    /\ cin = [t |-> "undefined"]
    /\ cout = [t |-> "undefined"]

FacIdle ==
    /\ fpc = "idle"
    /\ fop = "none"
    /\ fargs = <<0, 0>>
    /\ fcalls = <<>>
    /\ finflight = {}
    /\ fprim = Pending
    /\ ffb = NotCalled
    /\ fout = Pending

\* The two requests of the model, and a request that has not arrived.
RequestIds == {1, 2}

IdleRequest ==
    [pc |-> "idle", op |-> "none", received |-> Null, paymentPayload |-> Null,
     requirements |-> Null, calls |-> <<>>, answers |-> <<>>, out |-> Pending,
     log |-> <<>>]

ReqIdle == rq = [r \in RequestIds |-> IdleRequest]

InitFac == FacIdle /\ SigIdle /\ CanonIdle /\ ReqIdle

CallVerifyOrSettleSpeculative(op, payload, requirements) ==
    /\ fpc = "idle"
    /\ fop' = op
    /\ fargs' = <<payload, requirements>>
    /\ fcalls' = <<Call("primary", op, <<payload, requirements>>),
                   Call("fallback", op, <<payload, requirements>>)>>
    /\ finflight' = {"primary", "fallback"}
    /\ fprim' = Pending
    /\ ffb' = Pending
    /\ fout' = Pending
    /\ fpc' = "primary"
    /\ UNCHANGED nonFacVars

\* A composed client that remembers which client answered last: after a call
\* the fallback has answered, the next one goes to the fallback at once.
CallVerifyOrSettleSticky(op, payload, requirements) ==
    /\ fpc = "idle"
    /\ fop' = op
    /\ fargs' = <<payload, requirements>>
    /\ fout' = Pending
    /\ IF ffb.kind = "return"
       THEN /\ fcalls' = <<Call("fallback", op, <<payload, requirements>>)>>
            /\ finflight' = {"fallback"}
            /\ fprim' = Thrown(Null)
            /\ ffb' = Pending
            /\ fpc' = "fallback"
       ELSE /\ fcalls' = <<Call("primary", op, <<payload, requirements>>)>>
            /\ finflight' = {"primary"}
            /\ fprim' = Pending
            /\ ffb' = NotCalled
            /\ fpc' = "primary"
    /\ UNCHANGED nonFacVars

\* The caller invokes verify / settle (lines 86-88, 109-111): the primary
\* client's operation is called with the caller's arguments and awaited.
CallVerifyOrSettle(op, payload, requirements) ==
    /\ fpc = "idle"
    /\ fop' = op
    /\ fargs' = <<payload, requirements>>
    /\ fcalls' = <<Call("primary", op, <<payload, requirements>>)>>
    /\ finflight' = {"primary"}
    /\ fprim' = Pending
    /\ ffb' = NotCalled
    /\ fout' = Pending
    /\ fpc' = "primary"
    /\ UNCHANGED nonFacVars

\* The caller invokes getSupported (lines 132-134).
CallGetSupported ==
    /\ fpc = "idle"
    /\ fop' = "getSupported"
    /\ fargs' = <<0, 0>>
    /\ fcalls' = <<Call("primary", "getSupported", <<>>)>>
    /\ finflight' = {"primary"}
    /\ fprim' = Pending
    /\ ffb' = NotCalled
    /\ fout' = Pending
    /\ fpc' = "primary"
    /\ UNCHANGED nonFacVars

\* `return await primaryClient.<op>(...)` when the primary fulfils.
PrimaryFulfils(v) ==
    /\ fpc = "primary"
    /\ fprim' = Returned(v)
    /\ finflight' = finflight \ {"primary"}
    /\ fout' = Returned(v)
    /\ fpc' = "done"
    /\ UNCHANGED <<fop, fargs, fcalls, ffb>>
    /\ UNCHANGED nonFacVars

\* The decision of a catch block: does the composed client retry on the
\* fallback?  verify and settle classify the error (lines 90, 113);
\* getSupported does not (lines 135-140).
RetriesClassifyingGetSupported(op, error) ==
    shouldFallbackForFacilitatorError(error)

RetriesOnFallback(op, error) ==
    IF op = "getSupported" THEN TRUE
    ELSE shouldFallbackForFacilitatorError(error)

\* The arguments the catch block hands to the fallback client
\* (lines 98, 121, 140).
FallbackArgsRebuilt(op) ==
    IF op = "getSupported" THEN <<>> ELSE <<fargs[2], fargs[1]>>

FallbackArgs(op) ==
    IF op = "getSupported" THEN <<>> ELSE fargs

\* The primary rejects: the catch block (lines 89-98, 112-121, 135-140).
PrimaryRejects(e) ==
    /\ fpc = "primary"
    /\ fprim' = Thrown(e)
    /\ IF RetriesOnFallback(fop, e)
       THEN /\ fcalls' = Append(fcalls, Call("fallback", fop, FallbackArgs(fop)))
            /\ finflight' = (finflight \ {"primary"}) \cup {"fallback"}
            /\ ffb' = Pending
            /\ fpc' = "fallback"
            /\ UNCHANGED fout
       ELSE /\ fout' = Thrown(e)
            /\ finflight' = finflight \ {"primary"}
            /\ fpc' = "done"
            /\ UNCHANGED <<fcalls, ffb>>
    /\ UNCHANGED <<fop, fargs>>
    /\ UNCHANGED nonFacVars

\* `return await fallbackClient.<op>(...)` when the fallback fulfils.
FallbackFulfils(v) ==
    /\ fpc = "fallback"
    /\ ffb' = Returned(v)
    /\ finflight' = finflight \ {"fallback"}
    /\ fout' = Returned(v)
    /\ fpc' = "done"
    /\ UNCHANGED <<fop, fargs, fcalls, fprim>>
    /\ UNCHANGED nonFacVars

\* The fallback rejects: the inner catch rethrows fallbackError
\* (lines 99-106, 122-129); getSupported returns the rejected promise.
FallbackRejects(e) ==
    /\ fpc = "fallback"
    /\ ffb' = Thrown(e)
    /\ finflight' = finflight \ {"fallback"}
    /\ fout' = Thrown(e)
    /\ fpc' = "done"
    /\ UNCHANGED <<fop, fargs, fcalls, fprim>>
    /\ UNCHANGED nonFacVars

\* The composed client holds no state: after a call has ended the next one
\* starts afresh.
CallEnds ==
    /\ fpc = "done"
    /\ fpc' = "idle"
    /\ UNCHANGED <<fop, fargs, fcalls, finflight, fprim, ffb, fout>>
    /\ UNCHANGED nonFacVars

NextFac ==
    \/ \E op \in {"verify", "settle"}, p \in Payloads, r \in Requirements :
          CallVerifyOrSettle(op, p, r)
    \/ CallGetSupported
    \/ \E v \in Results : PrimaryFulfils(v)
    \/ \E e \in PrimaryErrors : PrimaryRejects(e)
    \/ \E v \in Results : FallbackFulfils(v)
    \/ \E e \in FallbackErrors : FallbackRejects(e)
    \/ CallEnds

SpecFac == InitFac /\ [][NextFac]_vars

----------------------------------------------------------------------------
(* Claims about the composed facilitator client, checked under SpecFac.    *)

\* The payload-format class as the specification words it: the reason code
\* is "invalid_payload", or the message contains "invalid_payload",
\* "Unexpected token" or "Failed to parse".
IsPayloadFormatError(e) ==
    /\ e.t = "object"
    /\ \/ (e.invalidReason.t = "string" /\ e.invalidReason.s = sInvalidPayload)
       \/ /\ e.message.t = "string"
          /\ \/ Includes(e.message.s, sInvalidPayload)
             \/ Includes(e.message.s, sUnexpectedToken)
             \/ Includes(e.message.s, sFailedToParse)

VerifyOrSettleEnded == fpc = "done" /\ fop \in {"verify", "settle"}

\* C1: when the primary's verify or settle rejects with a payload-format
\* error, the fallback's same operation has been called exactly once, with
\* the payload and requirements the primary was given, and the composed call
\* ends with the fallback's outcome (its value, or its own error).
C1_FallbackOnPayloadFormat ==
    (/\ VerifyOrSettleEnded
     /\ fprim.kind = "throw"
     /\ IsPayloadFormatError(fprim.error))
    => /\ Cardinality(CallsOn("fallback")) = 1
       /\ \A i \in CallsOn("fallback") :
            /\ fcalls[i].op = fop
            /\ fcalls[i].args = fcalls[1].args
            /\ fcalls[i].args = fargs
       /\ fcalls[1] = Call("primary", fop, fargs)
       /\ ffb.kind \in {"return", "throw"}
       /\ fout = ffb

C1_Witness ==
    /\ VerifyOrSettleEnded
    /\ fop = "verify"
    /\ fargs = <<1, 2>>
    /\ fprim.kind = "throw"
    /\ IsPayloadFormatError(fprim.error)
    /\ fprim.error.message = Str(sUnexpectedTokenInJson)
    /\ ffb.kind = "throw"
    /\ fout = ffb

\* C2: when the primary's verify or settle rejects with an error outside the
\* payload-format class, the fallback is never called and the composed call
\* rejects with the very object the primary raised.
C2_OtherErrorsPropagate ==
    (/\ VerifyOrSettleEnded
     /\ fprim.kind = "throw"
     /\ ~IsPayloadFormatError(fprim.error))
    => /\ CallsOn("fallback") = {}
       /\ ffb = NotCalled
       /\ fout = Thrown(fprim.error)

C2_Witness ==
    /\ VerifyOrSettleEnded
    /\ fop = "settle"
    /\ fprim = Thrown(ErrorObject(1, Str(sInsufficientFunds), Str(sInsufficientFunds)))
    /\ fout = fprim
    /\ Len(fcalls) = 1

\* C3: getSupported calls the fallback's getSupported after every primary
\* failure, whatever was thrown, and ends with the fallback's outcome; after
\* a primary success the fallback is not called.
C3_GetSupportedAlwaysFallsBack ==
    (fpc = "done" /\ fop = "getSupported")
    => /\ fprim.kind \in {"return", "throw"}
       /\ fprim.kind = "throw" =>
            /\ Cardinality(CallsOn("fallback")) = 1
            /\ fcalls[2] = Call("fallback", "getSupported", <<>>)
            /\ ffb.kind \in {"return", "throw"}
            /\ fout = ffb
       /\ fprim.kind = "return" =>
            /\ CallsOn("fallback") = {}
            /\ fout = fprim

C3_Witness ==
    /\ fpc = "done"
    /\ fop = "getSupported"
    /\ fprim.kind = "throw"
    /\ ~shouldFallbackForFacilitatorError(fprim.error)
    /\ ffb.kind = "return"
    /\ fout = ffb

\* C4: within one verify or settle the primary is called exactly once and
\* first, the fallback at most once and only after the primary has failed,
\* the two are never pending together, a primary success is returned without
\* a fallback call, and no call follows the end of the operation.
C4_SequentialAtMostTwoCalls ==
    (fop \in {"verify", "settle"})
    => /\ Len(fcalls) \in 1..2
       /\ fcalls[1].client = "primary"
       /\ Cardinality(CallsOn("primary")) = 1
       /\ Cardinality(CallsOn("fallback")) <= 1
       /\ Cardinality(finflight) <= 1
       /\ CallsOn("fallback") # {} =>
            (fprim.kind = "throw" /\ "primary" \notin finflight)
       /\ fprim.kind = "return" => (fout = fprim /\ CallsOn("fallback") = {})
       /\ fout.kind # "pending" => finflight = {}
       /\ fpc = "primary" <=> finflight = {"primary"}
       /\ fpc = "fallback" <=> finflight = {"fallback"}

C4_Witness ==
    /\ fop \in {"verify", "settle"}
    /\ fpc = "done"
    /\ Len(fcalls) = 2
    /\ fprim.kind = "throw"
    /\ fout.kind = "throw"

\* Reason codes of the non-transient classes: the facilitator names the
\* class of the failure in invalidReason.
NonTransientReasons == {sInsufficientFunds, sUnsupportedScheme}

HasNonTransientReason(e) ==
    /\ e.t = "object"
    /\ e.invalidReason.t = "string"
    /\ e.invalidReason.s \in NonTransientReasons

\* C21: a primary verify or settle error whose reason code names a
\* non-transient class is never retried on the fallback and is the error the
\* composed call rejects with, whatever the error's message says.
C21_NonTransientNeverRetried ==
    (/\ fop \in {"verify", "settle"}
     /\ fprim.kind = "throw"
     /\ HasNonTransientReason(fprim.error))
    => /\ CallsOn("fallback") = {}
       /\ ffb = NotCalled
       /\ fout = Thrown(fprim.error)

\* The outcome of one call of the composed client, from the operation and
\* the answers of the two clients to it.
OutcomeOf(op, primary, fallback) ==
    IF primary.kind = "return" THEN primary
    ELSE IF op = "getSupported" \/ IsPayloadFormatError(primary.error) THEN fallback
    ELSE primary

\* A call starts: the step that leaves "idle".
StartsOnPrimary ==
    (fpc = "idle" /\ fpc' # "idle")
    => /\ fpc' = "primary"
       /\ fprim' = Pending
       /\ ffb' = NotCalled
       /\ finflight' = {"primary"}
       /\ Len(fcalls') = 1
       /\ fcalls'[1].client = "primary"
       /\ fcalls'[1].op = fop'
       /\ fop' # "getSupported" => fcalls'[1].args = fargs'

\* C24: the composed client keeps no memory between calls: every verify,
\* settle and getSupported call starts with a call on the primary client
\* with the caller's arguments, whatever the call before ended with (also
\* when the fallback answered it), and the outcome of a call is given by
\* the operation and the two clients' answers to that call alone.
C24_NoMemoryBetweenCalls ==
    /\ [][StartsOnPrimary]_vars
    /\ [](fpc = "done" => fout = OutcomeOf(fop, fprim, ffb))

\* A call follows one that the fallback answered: the verify before ended
\* with the fallback's value, and settle now waits for the primary.
C24_Witness ==
    /\ fpc = "idle"
    /\ fop = "verify"
    /\ fprim.kind = "throw"
    /\ ffb.kind = "return"
    /\ fout = ffb
    /\ ENABLED CallVerifyOrSettle("settle", fargs[1], fargs[2])

----------------------------------------------------------------------------
(* Signature text.  A signature string is a sequence of blocks, each a run *)
(* of n characters of one kind:                                            *)
(*   "ws"    whitespace                                                    *)
(*   "0x"    the two characters 0x;  "0X" the two characters 0X            *)
(*   "hex"   n hex digits (v names their content)                          *)
(*   "txt"   n characters that are neither hex digits nor whitespace       *)
(*   "hdr"   the head of an ERC-6492 wrapper: the three head words of      *)
(*           abi.encode(address, bytes, bytes), the factory calldata and   *)
(*           the length word of the inner signature (v.inner hex digits)   *)
(*   "pad"   the zero padding of the inner signature to a 32-byte word     *)
(*   "magic" the 32 magic bytes 0x6492...6492 that end a wrapper           *)

Blk(k, n, v) == [k |-> k, n |-> n, v |-> v]

HexKinds == {"hex", "hdr", "pad", "magic"}

RECURSIVE TLen(_)
\* String.prototype.length
TLen(text) == IF text = <<>> THEN 0 ELSE Head(text).n + TLen(Tail(text))

\* signature.trim().replace(/\s+/g, "")
Compact(text) == SelectSeq(text, LAMBDA b : b.k # "ws")

IsBareHex(text) == Len(text) > 0 /\ \A i \in 1..Len(text) : text[i].k \in HexKinds

\* /^0x[0-9a-fA-F]+$/
MatchesPrefixedHex(text) ==
    Len(text) >= 2 /\ text[1].k = "0x" /\ IsBareHex(Tail(text))

\* /^(0x)?[0-9a-fA-F]+$/
MatchesOptPrefixHex(text) == IsBareHex(text) \/ MatchesPrefixedHex(text)

StartsWithPrefix(text) == Len(text) >= 1 /\ text[1].k \in {"0x", "0X"}

Prefix0x == Blk("0x", 2, 0)

\* `normalized.length > 132`: longer than 0x and the 130 hex digits of a
\* 65-byte signature.
MaxPlainLength == 132
\* `depth < 5`
MaxUnwrapDepth == 5

\* Hex digits of a 65-byte signature, of a 32-byte ABI word, of the magic
\* suffix, and of the factory calldata carried by the wrappers of the model.
SigDigits == MaxPlainLength - 2
WordDigits == 2 * 32
MagicDigits == WordDigits
FactoryDataDigits == 2 * WordDigits

PadDigits(n) == (WordDigits - (n % WordDigits)) % WordDigits

\* abi.encode(address, bytes, bytes) ++ magic around a 0x-prefixed inner
\* signature: what a smart-account signer produces (ERC-6492).
Wrap(text, factory) ==
    LET inner == Tail(text)
        digits == TLen(inner)
        head == Blk("hdr", 3 * WordDigits + WordDigits + FactoryDataDigits + WordDigits,
                    [factory |-> factory, inner |-> digits])
        pad == IF PadDigits(digits) = 0 THEN <<>>
               ELSE <<Blk("pad", PadDigits(digits), 0)>>
    IN  <<Prefix0x, head>> \o inner \o pad \o <<Blk("magic", MagicDigits, 0)>>

RECURSIVE WrapN(_, _)
WrapN(text, n) == IF n = 0 THEN text ELSE Wrap(WrapN(text, n - 1), n)

\* An answer of the parser: it throws, or returns `parsed`.
ParserThrows == [kind |-> "throw"]
ParserReturns(parsed) == [kind |-> "value", parsed |-> parsed]
Parsed(signature) == [t |-> "object", signature |-> signature]

\* parseErc6492Signature of the library imported at src/index.js:6, called
\* at line 344: a value that does not end with the magic bytes is returned
\* as {signature: value}; one that does is ABI-decoded and its third
\* component returned; decoding malformed content throws.
parseErc6492Signature(text) ==
    LET body == Tail(text)
        last == body[Len(body)]
    IN  IF last.k # "magic" THEN ParserReturns(Parsed(Str(text)))
        ELSE IF Len(body) < 3 \/ body[1].k # "hdr" THEN ParserThrows
        ELSE LET rest == SubSeq(body, 2, Len(body) - 1)
                 inner == IF rest[Len(rest)].k = "pad"
                          THEN SubSeq(rest, 1, Len(rest) - 1) ELSE rest
             IN  IF TLen(inner) = body[1].v.inner
                 THEN ParserReturns(Parsed(Str(<<Prefix0x>> \o inner)))
                 ELSE ParserThrows

----------------------------------------------------------------------------
(* normalizeSignaturePayload, src/index.js:308-429.                        *)

Result(signature, changed, was, unwrapped, depth) ==
    [signature |-> signature, changed |-> changed, wasErc6492 |-> was,
     erc6492Unwrapped |-> unwrapped, erc6492Depth |-> depth]

Unchanged(signature) == Result(signature, FALSE, FALSE, FALSE, 0)

\* Lines 330-334: the value forced to the 0x form when it is hex.
NormalizedHex(compact) ==
    IF MatchesOptPrefixHex(compact)
    THEN IF StartsWithPrefix(compact) THEN <<Prefix0x>> \o Tail(compact)
         ELSE <<Prefix0x>> \o compact
    ELSE compact

\* Line 341: is the unwrap loop entered?
LooksWrapped(text) == MatchesPrefixedHex(text) /\ TLen(text) > MaxPlainLength

\* Lines 319-340: the string case up to the loop; `loop` says whether the
\* for statement is reached.
StringCase(text) ==
    LET compact == Compact(text)
    IN  IF compact = <<>>
        THEN [res |-> Result(Str(compact), compact # text, FALSE, FALSE, 0),
              loop |-> FALSE]
        ELSE [res |-> Result(Str(NormalizedHex(compact)), NormalizedHex(compact) # text,
                             FALSE, FALSE, 0),
              loop |-> LooksWrapped(NormalizedHex(compact))]

\* serializeSignature of the library (line 397) applied to r, s and the
\* parity: a compact 65-byte signature.
Serialized(r, s, v, yParity) ==
    Str(<<Prefix0x, Blk("hex", SigDigits, <<r, s, v, yParity>>)>>)

\* Does the object carry string r and s and a v or yParity (lines 387-388)?
HasRsv(signature) ==
    /\ signature.r.t = "string" /\ signature.s.t = "string"
    /\ (signature.v.t \notin {"null", "undefined"}
        \/ signature.yParity.t \notin {"null", "undefined"})

BeforeLoopRsvFirst(signature, serializes) ==
    IF signature.t \in {"null", "undefined"}
    THEN [res |-> Unchanged(signature), loop |-> FALSE, nested |-> FALSE]
    ELSE IF signature.t = "string"
    THEN [res |-> StringCase(signature.s).res, loop |-> StringCase(signature.s).loop,
          nested |-> FALSE]
    ELSE IF signature.t = "object" /\ ~signature.arr
    THEN IF HasRsv(signature)
         THEN IF serializes
              THEN [res |-> Result(Serialized(signature.r, signature.s, signature.v,
                                              signature.yParity),
                                   TRUE, FALSE, FALSE, 0),
                    loop |-> FALSE, nested |-> FALSE]
              ELSE [res |-> Unchanged(signature), loop |-> FALSE, nested |-> FALSE]
         ELSE IF signature.signature.t = "string"
         THEN [res |-> StringCase(signature.signature.s).res,
               loop |-> StringCase(signature.signature.s).loop,
               nested |-> TRUE]
         ELSE [res |-> Unchanged(signature), loop |-> FALSE, nested |-> FALSE]
    ELSE [res |-> Unchanged(signature), loop |-> FALSE, nested |-> FALSE]

\* The code before the loop, lines 309-340 and 375-428.  `serializes` is the
\* library's serializeSignature succeeding (TRUE) or throwing (FALSE).
BeforeLoop(signature, serializes) ==
    IF signature.t \in {"null", "undefined"}
    THEN [res |-> Unchanged(signature), loop |-> FALSE, nested |-> FALSE]
    ELSE IF signature.t = "string"
    THEN [res |-> StringCase(signature.s).res, loop |-> StringCase(signature.s).loop,
          nested |-> FALSE]
    ELSE IF signature.t = "object" /\ ~signature.arr
    THEN IF signature.signature.t = "string"
         THEN [res |-> StringCase(signature.signature.s).res,
               loop |-> StringCase(signature.signature.s).loop,
               nested |-> TRUE]
         ELSE IF /\ signature.r.t = "string" /\ signature.s.t = "string"
                 /\ (signature.v.t \notin {"null", "undefined"}
                     \/ signature.yParity.t \notin {"null", "undefined"})
         THEN IF serializes
              THEN [res |-> Result(Serialized(signature.r, signature.s, signature.v,
                                              signature.yParity),
                                   TRUE, FALSE, FALSE, 0),
                    loop |-> FALSE, nested |-> FALSE]
              ELSE [res |-> Unchanged(signature), loop |-> FALSE, nested |-> FALSE]
         ELSE [res |-> Unchanged(signature), loop |-> FALSE, nested |-> FALSE]
    ELSE [res |-> Unchanged(signature), loop |-> FALSE, nested |-> FALSE]

\* A loop that gives up after three passes.
LoopContinuesUpToThree(depth) == depth < 3

LoopContinuesOneShort(depth) == depth < MaxUnwrapDepth - 1

LoopContinuesOneMore(depth) == depth <= MaxUnwrapDepth

\* Line 342: the condition of the for statement.
LoopContinues(depth) == depth < MaxUnwrapDepth

\* parsed?.signature
SignatureOf(parsed) == IF parsed.t = "object" THEN parsed.signature ELSE Undefined

\* /^0x[0-9a-fA-F]+$/.test(parsed.signature)
IsPrefixedHexValue(v) == v.t = "string" /\ MatchesPrefixedHex(v.s)

LoopBodyNoCatch(res, answer) ==
    IF answer.kind = "throw"
    THEN [res |-> res, exit |-> TRUE, raised |-> TRUE]
    ELSE LET inner == SignatureOf(answer.parsed)
         IN  IF ~Truthy(inner) \/ ~IsPrefixedHexValue(inner)
             THEN [res |-> res, exit |-> TRUE, raised |-> FALSE]
             ELSE IF inner = res.signature
             THEN [res |-> [res EXCEPT !.wasErc6492 = TRUE],
                   exit |-> TRUE, raised |-> FALSE]
             ELSE [res |-> Result(inner, TRUE, TRUE, TRUE, res.erc6492Depth + 1),
                   exit |-> TLen(inner.s) <= MaxPlainLength, raised |-> FALSE]

LoopBodyFlagOnUnwrapOnly(res, answer) ==
    IF answer.kind = "throw"
    THEN [res |-> res, exit |-> TRUE, raised |-> FALSE]
    ELSE LET inner == SignatureOf(answer.parsed)
         IN  IF ~Truthy(inner) \/ ~IsPrefixedHexValue(inner)
             THEN [res |-> res, exit |-> TRUE, raised |-> FALSE]
             ELSE IF inner = res.signature
             THEN [res |-> res, exit |-> TRUE, raised |-> FALSE]
             ELSE [res |-> Result(inner, TRUE, TRUE, TRUE, res.erc6492Depth + 1),
                   exit |-> TLen(inner.s) <= MaxPlainLength, raised |-> FALSE]

\* Lines 343-362: one pass of the loop body on the parser's answer.  `exit`
\* is a break; `raised` an exception leaving the function.
LoopBody(res, answer) ==
    IF answer.kind = "throw"
    THEN [res |-> res, exit |-> TRUE, raised |-> FALSE]
    ELSE LET inner == SignatureOf(answer.parsed)
         IN  IF ~Truthy(inner) \/ ~IsPrefixedHexValue(inner)
             THEN [res |-> res, exit |-> TRUE, raised |-> FALSE]
             ELSE IF inner = res.signature
             THEN [res |-> [res EXCEPT !.wasErc6492 = TRUE],
                   exit |-> TRUE, raised |-> FALSE]
             ELSE [res |-> Result(inner, TRUE, TRUE, TRUE, res.erc6492Depth + 1),
                   exit |-> TLen(inner.s) <= MaxPlainLength, raised |-> FALSE]

\* What normalizeSignaturePayload returns once spc = "done": the nested
\* {signature: <string>} case reports changed = true (lines 378-384).
SigResult ==
    IF snested THEN [sres EXCEPT !.changed = TRUE] ELSE sres

----------------------------------------------------------------------------
(* The signatures given to normalizeSignaturePayload and the answers of    *)
(* the parser.                                                             *)

\* Deepest nesting of wrappers among the inputs.
MaxWraps == 6
\* Number of distinct long hex values an arbitrary parser may answer with.
NumLongValues == 2

Sig65 == <<Prefix0x, Blk("hex", SigDigits, "sig")>>
Ws == Blk("ws", 1, 0)

\* The spellings of one hex text: as is, without prefix, with 0X, with
\* surrounding and with inner whitespace.
Spellings(text) ==
    { text,
      Tail(text),
      <<Blk("0X", 2, 0)>> \o Tail(text),
      <<Ws>> \o text \o <<Ws, Ws>>,
      <<text[1], text[2], Ws>> \o SubSeq(text, 3, Len(text)) }

SigTexts ==
    UNION { Spellings(WrapN(Sig65, n)) : n \in 0..MaxWraps }
    \cup { <<>>, <<Ws>>, <<Prefix0x>>,
           <<Blk("txt", 9, 0)>>,
           <<Prefix0x, Blk("txt", 140, 0)>>,
           <<Prefix0x, Blk("hex", 2, 0)>>,
           <<Prefix0x, Blk("hex", SigDigits + 1, 0)>>,
           <<Prefix0x, Blk("hex", 2 * SigDigits, 0)>>,
           \* the magic suffix after content that is no ABI encoding
           <<Prefix0x, Blk("hex", 2 * SigDigits, 0), Blk("magic", MagicDigits, 0)>>,
           \* a wrapper whose length word disagrees with its content
           <<Prefix0x, Blk("hdr", 6 * WordDigits, [factory |-> 1, inner |-> 3 * SigDigits]),
             Blk("hex", SigDigits, "sig"), Blk("magic", MagicDigits, 0)>> }

SigObject(signature, r, s, v, yParity) ==
    [t |-> "object", arr |-> FALSE, signature |-> signature,
     r |-> r, s |-> s, v |-> v, yParity |-> yParity]

HexR == Str(<<Prefix0x, Blk("hex", WordDigits, "r")>>)
HexS == Str(<<Prefix0x, Blk("hex", WordDigits, "s")>>)

SigInputs ==
    { Str(text) : text \in SigTexts }
    \cup { SigObject(Str(text), Undefined, Undefined, Undefined, Undefined) :
             text \in {Sig65, WrapN(Sig65, 2), Tail(Sig65), <<>>} }
    \cup { SigObject(Str(Sig65), HexR, HexS, Num(27), Undefined),
           SigObject(Undefined, HexR, HexS, Num(27), Undefined),
           SigObject(Undefined, HexR, HexS, Null, Num(1)),
           SigObject(Undefined, HexR, HexS, Str(<<Blk("txt", 1, 0)>>), Undefined),
           SigObject(Undefined, HexR, HexS, Undefined, Undefined),
           SigObject(Undefined, HexR, Num(5), Num(27), Undefined),
           SigObject(Num(7), Undefined, Undefined, Undefined, Undefined),
           SigObject(Undefined, Undefined, Undefined, Undefined, Undefined),
           [t |-> "object", arr |-> TRUE],
           Null, Undefined, Num(7), [t |-> "boolean", b |-> TRUE] }

LongHex(i) == <<Prefix0x, Blk("hex", 2 * SigDigits, i)>>

\* What a parser that may answer anything returns on `text`.
ArbitraryAnswers(text) ==
    { ParserThrows,
      ParserReturns(Null),
      ParserReturns(Undefined),
      ParserReturns(Parsed(Undefined)),
      ParserReturns(Parsed(Null)),
      ParserReturns(Parsed(Num(1))),
      ParserReturns(Parsed(Str(<<>>))),
      ParserReturns(Parsed(Str(<<Prefix0x, Blk("txt", 140, 0)>>))),
      ParserReturns(Parsed(Str(<<Blk("hex", 2 * SigDigits, 0)>>))),
      ParserReturns(Parsed(Str(text))),
      ParserReturns(Parsed(Str(Sig65))) }
    \cup { ParserReturns(Parsed(Str(LongHex(i)))) : i \in 1..NumLongValues }

Answers(parser, text) ==
    IF parser = "erc6492" THEN {parseErc6492Signature(text)}
    ELSE ArbitraryAnswers(text)

\* The parser's answer carries a hex signature other than its argument.
UnwrapsNewValue(answer, arg) ==
    /\ answer.kind = "value"
    /\ answer.parsed.t = "object"
    /\ answer.parsed.signature.t = "string"
    /\ MatchesPrefixedHex(answer.parsed.signature.s)
    /\ answer.parsed.signature # arg

\* The parser threw, or its answer carries no signature or a non-hex one.
AnswerFails(answer) ==
    \/ answer.kind = "throw"
    \/ /\ answer.kind = "value"
       /\ \/ answer.parsed.t # "object"
          \/ answer.parsed.signature.t # "string"
          \/ ~MatchesPrefixedHex(answer.parsed.signature.s)

----------------------------------------------------------------------------
(* The call of normalizeSignaturePayload as a state machine: the code up   *)
(* to the loop, then one action per call of the parser.                    *)

InitSig == FacIdle /\ SigIdle /\ CanonIdle /\ ReqIdle

\* normalizeSignaturePayload(signature) up to the first call of the parser,
\* or to its return when the loop is not reached.
SigCall(signature, parser, serializes) ==
    /\ spc = "idle"
    /\ LET b == BeforeLoop(signature, serializes)
       IN  /\ sres' = b.res
           /\ snested' = b.nested
           /\ spc' = IF b.loop /\ LoopContinues(0) THEN "loop" ELSE "done"
    /\ sin' = signature
    /\ sparser' = parser
    /\ sloop' = 0
    /\ sraised' = FALSE
    /\ sparse' = 0
    /\ sok' = 0
    /\ slast' = [t |-> "undefined"]
    /\ sfailed' = FALSE
    /\ UNCHANGED nonSigVars

\* One pass of the loop: the parser is called on `normalized` and answers.
SigParse(answer) ==
    /\ spc = "loop"
    /\ LET b == LoopBody(sres, answer)
       IN  /\ sres' = b.res
           /\ sraised' = b.raised
           /\ sloop' = IF b.exit THEN sloop ELSE sloop + 1
           /\ spc' = IF b.exit \/ ~LoopContinues(sloop + 1) THEN "done" ELSE "loop"
    /\ sparse' = sparse + 1
    /\ sok' = IF UnwrapsNewValue(answer, sres.signature) THEN sok + 1 ELSE sok
    /\ slast' = IF UnwrapsNewValue(answer, sres.signature)
                THEN answer.parsed.signature ELSE slast
    /\ sfailed' = AnswerFails(answer)
    /\ UNCHANGED <<sin, sparser, snested>>
    /\ UNCHANGED nonSigVars

\* The caller has taken the result; the function keeps nothing.
SigReturn ==
    /\ spc = "done"
    /\ spc' = "idle"
    /\ sin' = [t |-> "undefined"]
    /\ sparser' = "erc6492"
    /\ snested' = FALSE
    /\ sres' = Unchanged([t |-> "undefined"])
    /\ sloop' = 0
    /\ sraised' = FALSE
    /\ sparse' = 0
    /\ sok' = 0
    /\ slast' = [t |-> "undefined"]
    /\ sfailed' = FALSE
    /\ UNCHANGED nonSigVars

\* The answers the parser may give to the call that is pending.
PendingAnswers ==
    IF spc = "loop" THEN Answers(sparser, sres.signature.s) ELSE {}

NextSig ==
    \/ \E signature \in SigInputs, parser \in {"erc6492", "arbitrary"},
          serializes \in BOOLEAN : SigCall(signature, parser, serializes)
    \/ \E answer \in PendingAnswers : SigParse(answer)
    \/ SigReturn

SpecSig == InitSig /\ [][NextSig]_vars

\* The loop is synchronous code: once entered, its next pass runs.
SpecSigLive ==
    SpecSig /\ WF_vars(\E answer \in PendingAnswers : SigParse(answer))

----------------------------------------------------------------------------
(* Claims about normalizeSignaturePayload.                                 *)

SigEnded == spc = "done"

\* C6: a 65-byte hex signature inside n nested ERC-6492 wrappers comes back
\* as the 65-byte signature with erc6492Depth = n for 1 <= n <= 5; for
\* n = 6 the depth is 5 and the value returned still carries one wrapper.
C6_UnwrapsUpToFive ==
    (SigEnded /\ sparser = "erc6492")
    => /\ \A n \in 1..5 :
            sin = Str(WrapN(Sig65, n))
            => /\ SigResult.signature = Str(Sig65)
               /\ SigResult.erc6492Depth = n
       /\ sin = Str(WrapN(Sig65, 6))
            => /\ SigResult.erc6492Depth = 5
               /\ SigResult.signature = Str(Wrap(Sig65, 1))
               /\ SigResult.signature # Str(Sig65)

C6_Witness ==
    /\ SigEnded
    /\ sparser = "erc6492"
    /\ sin = Str(WrapN(Sig65, 6))
    /\ sparse = 5
    /\ SigResult.erc6492Depth = 5

\* C7: the parser is called at most 5 times in one call and erc6492Depth
\* never exceeds 5, whatever the parser answers, and a call that has entered
\* the loop returns.
C7_BoundedUnwrap ==
    /\ [](sparse <= 5 /\ sres.erc6492Depth <= 5)
    /\ ((spc = "loop") ~> (spc = "done"))

C7_Witness ==
    /\ SigEnded
    /\ sparser = "arbitrary"
    /\ sparse = 5
    /\ sok = 5
    /\ SigResult.erc6492Depth = 5
    /\ TLen(SigResult.signature.s) > MaxPlainLength

\* The text given to the string case: the argument, or its `signature`
\* member.
InputText(signature) ==
    IF signature.t = "string" THEN signature.s ELSE signature.signature.s

\* The argument without whitespace and with a 0x prefix.
PrefixedInput(signature) ==
    LET text == Compact(InputText(signature))
    IN  IF text[1].k = "0x" THEN text ELSE <<Prefix0x>> \o text

\* C8: no exception leaves normalizeSignaturePayload; when the parser throws
\* or answers with a missing or non-hex signature, the signature returned is
\* that of the last answer which unwrapped a value (the 0x-prefixed input
\* when there was none), and the flags and the depth count those answers
\* only.
C8_NeverRaisesKeepsBest ==
    /\ ~sraised
    /\ (SigEnded /\ sfailed)
       => /\ SigResult.signature =
                (IF sok = 0 THEN Str(PrefixedInput(sin)) ELSE slast)
          /\ SigResult.erc6492Depth = sok
          /\ SigResult.erc6492Unwrapped = (sok > 0)
          /\ SigResult.wasErc6492 = (sok > 0)

C8_Witness ==
    /\ SigEnded
    /\ sfailed
    /\ sok = 2
    /\ SigResult.signature = slast
    /\ SigResult.erc6492Depth = 2

\* Some call of the parser returned a hex signature: every pass before the
\* last one unwrapped a value, and the last one did not fail.
SomeParseSucceeded == sok >= 1 \/ (sparse >= 1 /\ ~sfailed)

\* The argument is a string of at most 130 hex digits after the prefix.
IsShortHexString(signature) ==
    /\ signature.t = "string"
    /\ MatchesOptPrefixHex(Compact(signature.s))
    /\ TLen(NormalizedHex(Compact(signature.s))) <= MaxPlainLength

\* C22: in every result of normalizeSignaturePayload erc6492Depth is in 0..5
\* and counts the passes that replaced the value, erc6492Unwrapped is true
\* exactly when the depth is at least 1 and implies wasErc6492 and changed,
\* wasErc6492 is true exactly when some call of the parser succeeded, and a
\* string of at most 130 hex digits is not parsed and gets false, false, 0.
C22_FlagsConsistent ==
    SigEnded
    => /\ SigResult.erc6492Depth \in 0..MaxUnwrapDepth
       /\ SigResult.erc6492Depth = sok
       /\ SigResult.erc6492Unwrapped <=> SigResult.erc6492Depth >= 1
       /\ SigResult.erc6492Unwrapped => (SigResult.wasErc6492 /\ SigResult.changed)
       /\ SigResult.wasErc6492 <=> SomeParseSucceeded
       /\ IsShortHexString(sin)
            => /\ sparse = 0
               /\ ~SigResult.wasErc6492
               /\ ~SigResult.erc6492Unwrapped
               /\ SigResult.erc6492Depth = 0

\* Two wrappers are removed, then the parser returns its argument: the
\* third parse succeeds without replacing the value.
C22_Witness ==
    /\ SigEnded
    /\ sparser = "arbitrary"
    /\ sparse = 3
    /\ sok = 2
    /\ ~sfailed
    /\ SigResult.wasErc6492
    /\ SigResult.erc6492Depth = 2
    /\ TLen(SigResult.signature.s) > MaxPlainLength

----------------------------------------------------------------------------
(* The Canonicalizer, src/index.js:169-224, on strings that are sequences  *)
(* of characters.                                                          *)

DecChars == {"0", "1", "2", "3", "4", "5", "6", "7", "8", "9"}
LowerHexChars == DecChars \cup {"a", "b", "c", "d", "e", "f"}
HexChars == LowerHexChars \cup {"A", "B", "C", "D", "E", "F"}
SpaceChars == {" ", "\t"}

\* String.prototype.toLowerCase / toUpperCase on the letters that occur.
LowerOf(c) ==
    CASE c = "A" -> "a" [] c = "B" -> "b" [] c = "C" -> "c" [] c = "D" -> "d"
      [] c = "E" -> "e" [] c = "F" -> "f" [] c = "X" -> "x" [] OTHER -> c

UpperOf(c) ==
    CASE c = "a" -> "A" [] c = "b" -> "B" [] c = "c" -> "C" [] c = "d" -> "D"
      [] c = "e" -> "E" [] c = "f" -> "F" [] c = "x" -> "X" [] OTHER -> c

ToLowerCase(s) == [i \in 1..Len(s) |-> LowerOf(s[i])]

HexVal(c) ==
    CASE LowerOf(c) = "0" -> 0 [] LowerOf(c) = "1" -> 1 [] LowerOf(c) = "2" -> 2
      [] LowerOf(c) = "3" -> 3 [] LowerOf(c) = "4" -> 4 [] LowerOf(c) = "5" -> 5
      [] LowerOf(c) = "6" -> 6 [] LowerOf(c) = "7" -> 7 [] LowerOf(c) = "8" -> 8
      [] LowerOf(c) = "9" -> 9 [] LowerOf(c) = "a" -> 10 [] LowerOf(c) = "b" -> 11
      [] LowerOf(c) = "c" -> 12 [] LowerOf(c) = "d" -> 13 [] LowerOf(c) = "e" -> 14
      [] LowerOf(c) = "f" -> 15

HexCharOf(v) ==
    <<"0", "1", "2", "3", "4", "5", "6", "7", "8", "9",
      "a", "b", "c", "d", "e", "f">>[v + 1]

Rep(c, n) == [i \in 1..n |-> c]

AllIn(s, chars) == \A i \in 1..Len(s) : s[i] \in chars

TrimStart(s) ==
    LET kept == { i \in 1..Len(s) : s[i] \notin SpaceChars }
    IN  IF kept = {} THEN <<>>
        ELSE SubSeq(s, CHOOSE i \in kept : \A j \in kept : i <= j, Len(s))

TrimEnd(s) ==
    LET kept == { i \in 1..Len(s) : s[i] \notin SpaceChars }
    IN  IF kept = {} THEN <<>>
        ELSE SubSeq(s, 1, CHOOSE i \in kept : \A j \in kept : i >= j)

\* String.prototype.trim
Trim(s) == TrimEnd(TrimStart(s))

\* String.prototype.padStart(n, c)
PadStart(s, n, c) == IF Len(s) >= n THEN s ELSE Rep(c, n - Len(s)) \o s

\* String.prototype.slice(-n)
SliceLast(s, n) == IF Len(s) <= n THEN s ELSE SubSeq(s, Len(s) - n + 1, Len(s))

\* /^0x/i
HasPrefix0x(s) == Len(s) >= 2 /\ s[1] = "0" /\ s[2] \in {"x", "X"}

\* s.slice(2)
Slice2(s) == SubSeq(s, 3, Len(s))

\* /^0x[0-9a-fA-F]+$/i
IsPrefixedHex(s) == HasPrefix0x(s) /\ Len(s) >= 3 /\ AllIn(Slice2(s), HexChars)

(* BigInt(decimal).toString(16).  The integers of a nonce exceed the       *)
(* machine integers of the checker, so the number is held as a sequence of *)
(* limbs of four decimal digits and divided by 16^4 limb by limb.          *)

LimbBase == 10 * 10 * 10 * 10
GroupBase == 16 * 16 * 16 * 16

\* The limbs of a string of decimal digits, most significant first.
LimbsOf(s) ==
    LET m == (Len(s) + 3) \div 4
        p == Rep("0", 4 * m - Len(s)) \o s
    IN  [j \in 1..m |-> 1000 * HexVal(p[4 * j - 3]) + 100 * HexVal(p[4 * j - 2])
                        + 10 * HexVal(p[4 * j - 1]) + HexVal(p[4 * j])]

\* F(v) with v computed once and held while F uses it, as a `const` or a
\* `let` of the code holds the value it was given.
Const(F(_), v) == CHOOSE result \in { F(held) : held \in {v} } : TRUE

RECURSIVE Iterate(_, _, _)
\* F applied n times to x.
Iterate(F(_), x, n) ==
    IF n = 0 THEN x
    ELSE IF n = 1 THEN F(x)
    ELSE Const(LAMBDA half : Iterate(F, half, n - n \div 2), Iterate(F, x, n \div 2))

\* Long division of a sequence of digits of the given base by divisor:
\* <<quotient digits, remainder>>.  Each step brings down one digit.
LongDivBy(limbs, base, divisor) ==
    LET Step(st) ==
            LET cur == st.rem * base + limbs[Len(st.quot) + 1]
            IN  [rem |-> cur % divisor, quot |-> Append(st.quot, cur \div divisor)]
        end == Iterate(Step, [rem |-> 0, quot |-> <<>>], Len(limbs))
    IN  <<end.quot, end.rem>>

\* A sequence of digits without its leading zeros.
StripZeros(digits) ==
    LET kept == { i \in 1..Len(digits) : digits[i] # 0 }
    IN  IF kept = {} THEN <<>>
        ELSE SubSeq(digits, CHOOSE i \in kept : \A j \in kept : i <= j, Len(digits))

\* One step of the conversion of a number to the base `divisor`: the
\* quotient that is left is divided once more and the remainder is the
\* next digit, until the quotient is zero.
DivisionStep(st, base, divisor) ==
    IF StripZeros(st.rest) = <<>> THEN st
    ELSE Const(LAMBDA qr : [rest |-> qr[1], digits |-> <<qr[2]>> \o st.digits],
               LongDivBy(StripZeros(st.rest), base, divisor))

\* The base-16^4 digits of a limb sequence, most significant first: they
\* are no more than the limbs.
GroupsOf(limbs) ==
    Iterate(LAMBDA st : DivisionStep(st, LimbBase, GroupBase),
            [rest |-> limbs, digits |-> <<>>], Len(limbs)).digits

\* The four hex digits of the groups, in order.
HexDigitsOf(groups) ==
    [i \in 1..(4 * Len(groups)) |->
        LET g == groups[(i + 3) \div 4]
            k == (i - 1) % 4
        IN  CASE k = 0 -> g \div (16 * 16 * 16)
              [] k = 1 -> (g \div (16 * 16)) % 16
              [] k = 2 -> (g \div 16) % 16
              [] k = 3 -> g % 16]

\* BigInt(s).toString(16) for a string of decimal digits.
BigIntToHex(s) ==
    LET h == StripZeros(HexDigitsOf(GroupsOf(LimbsOf(s))))
    IN  IF h = <<>> THEN <<"0">> ELSE [i \in 1..Len(h) |-> HexCharOf(h[i])]

\* `hex.length === 64`, padStart(64, "0"), slice(-64), {64}, {1,64}
NonceDigits == 64

Ox == <<"0", "x">>

\* normalizeHexNonce, src/index.js:169-208
normalizeHexNonce(value) ==
    IF value.t # "string" THEN value
    ELSE LET trimmed == Trim(value.s)
         IN  IF trimmed = <<>> THEN Str(trimmed)
             ELSE IF IsPrefixedHex(trimmed)
             THEN LET hex == ToLowerCase(Slice2(trimmed))
                  IN  IF Len(hex) = NonceDigits THEN Str(Ox \o hex)
                      ELSE IF Len(hex) < NonceDigits
                      THEN Str(Ox \o PadStart(hex, NonceDigits, "0"))
                      ELSE Str(Ox \o SliceLast(hex, NonceDigits))
             ELSE IF Len(trimmed) = NonceDigits /\ AllIn(trimmed, HexChars)
             THEN Str(Ox \o ToLowerCase(trimmed))
             ELSE IF AllIn(trimmed, DecChars)
             THEN Str(Ox \o PadStart(BigIntToHex(trimmed), NonceDigits, "0"))
             ELSE IF Len(trimmed) <= NonceDigits /\ AllIn(trimmed, HexChars)
             THEN Str(Ox \o PadStart(ToLowerCase(trimmed), NonceDigits, "0"))
             ELSE Str(trimmed)

\* The hex digits of a 20-byte address.
AddressDigits == 2 * 20

\* Stands for nibble i of keccak256 of the lowercase digits, which the
\* library's checksum reads: a fixed function of those digits and of i.
RECURSIVE DigitSum(_)
DigitSum(s) ==
    IF s = <<>> THEN 0
    ELSE IF Len(s) = 1 THEN HexVal(s[1])
    ELSE LET half == Len(s) \div 2
         IN  DigitSum(SubSeq(s, 1, half)) + DigitSum(SubSeq(s, half + 1, Len(s)))

HashNibble(sum, lower, i) == (sum + 7 * i + 3 * HexVal(lower[i])) % 16

\* checksumAddress of the library: each letter is upper case when the hash
\* nibble at its place is 8 or more.
checksumAddress(address) ==
    LET lower == ToLowerCase(Slice2(address))
        sum == DigitSum(lower)
    IN  Ox \o [i \in 1..Len(lower) |->
                 IF HashNibble(sum, lower, i) >= 8 THEN UpperOf(lower[i])
                 ELSE lower[i]]

\* getAddress of the library imported at src/index.js:6, called at line
\* 220: it throws unless its argument matches /^0x[a-fA-F0-9]{40}$/, and
\* returns the checksummed spelling otherwise.
getAddress(address) ==
    IF /\ Len(address) = 2 + AddressDigits
       /\ SubSeq(address, 1, 2) = Ox
       /\ AllIn(Slice2(address), HexChars)
    THEN [kind |-> "value", value |-> checksumAddress(address)]
    ELSE [kind |-> "throw"]

\* normalizeAddress with the prefix rewritten before the text is trimmed
\* (lines 214 and 218 in the other order).
normalizeAddressPrefixFirst(value) ==
    IF value.t # "string" THEN value
    ELSE LET normalizedPrefix == IF HasPrefix0x(value.s) THEN Ox \o Slice2(value.s)
                                 ELSE value.s
             trimmed == Trim(normalizedPrefix)
         IN  IF trimmed = <<>> THEN Str(trimmed)
             ELSE IF getAddress(trimmed).kind = "value"
             THEN Str(getAddress(trimmed).value)
             ELSE Str(trimmed)

\* normalizeAddress, src/index.js:210-224
normalizeAddress(value) ==
    IF value.t # "string" THEN value
    ELSE LET trimmed == Trim(value.s)
             normalizedPrefix == IF HasPrefix0x(trimmed) THEN Ox \o Slice2(trimmed)
                                 ELSE trimmed
         IN  IF trimmed = <<>> THEN Str(trimmed)
             ELSE IF getAddress(normalizedPrefix).kind = "value"
             THEN Str(getAddress(normalizedPrefix).value)
             ELSE Str(normalizedPrefix)

----------------------------------------------------------------------------
(* The arguments given to the Canonicalizer.                               *)

\* Lengths explored: 1..MaxShort digits, and from two digits under the nonce
\* width to MaxOver digits over it; LongDecimalDigits is the length of the
\* longest decimal strings.
MaxShort == 3
MaxOver == 2
LongDecimalDigits == 78

NonceLengths ==
    (1..MaxShort) \cup ((NonceDigits - 2)..(NonceDigits + MaxOver))
    \cup {LongDecimalDigits}

\* Digit strings of length n: one digit repeated, and the same ending in
\* another digit.
DigitStrings(n) ==
    { Rep(c, n) : c \in {"0", "1", "9", "a", "F"} }
    \cup { Rep(c, n - 1) \o <<d>> : c \in {"0", "1"}, d \in {"3", "b"} }

NonceTexts ==
    UNION { { body, <<"0", "x">> \o body, <<"0", "X">> \o body } :
              body \in UNION { DigitStrings(n) : n \in NonceLengths } }
    \cup { <<"1", "2", "3">>, <<" ", "1", "2", "3", "\t">>, <<"7", "b">>,
           <<>>, <<" ">>, <<"0", "x">>, <<"n", "o", "n", "c", "e">>,
           <<"0", "x", "1", "g">>, <<"-", "1">>, <<"1", ".", "5">> }

NonceInputs ==
    { Str(text) : text \in NonceTexts } \cup { Null, Undefined, Num(123) }

\* PAY_TO, src/index.js:599, and the asset of eip155:8453, line 15, without
\* their prefix.
PayToDigits ==
    <<"5","7","C","E","1","5","3","9","5","8","2","8","c","B","0","6","D","c","d","5","1","4","9","1","8","d","f","0","d","8","D","8","6","F","8","1","5","0","1","1">>
UsdcDigits ==
    <<"8","3","3","5","8","9","f","C","D","6","e","D","b","6","E","0","8","f","4","c","7","C","3","2","D","4","f","7","1","b","5","4","b","d","A","0","2","9","1","3">>

AddressDigitStrings ==
    { PayToDigits, UsdcDigits, Rep("a", AddressDigits), Rep("7", AddressDigits),
      Rep("0", AddressDigits - 1) \o <<"D">> }

\* The spellings of one address: its digits in their own, in lower and in
\* upper case, with 0x, with 0X and without prefix, bare or inside
\* whitespace.
AddressSpellings(digits) ==
    LET cased == { digits, ToLowerCase(digits),
                   [i \in 1..Len(digits) |-> UpperOf(digits[i])] }
        prefixed == UNION { { d, <<"0", "x">> \o d, <<"0", "X">> \o d } : d \in cased }
    IN  prefixed \cup { <<" ">> \o a \o <<"\t", " ">> : a \in prefixed }

AddressTexts ==
    UNION { AddressSpellings(d) : d \in AddressDigitStrings }
    \cup { <<>>, <<" ">>, <<"0", "x">>,
           <<"0", "x">> \o Rep("a", AddressDigits - 1),
           <<"0", "x">> \o Rep("a", AddressDigits + 1),
           <<"0", "x">> \o Rep("a", AddressDigits - 1) \o <<"g">>,
           <<" ", "0", "X">> \o Rep("a", AddressDigits - 1) \o <<"g", " ">>,
           <<"r", "o", "o", "k", ".", "e", "t", "h">> }

AddressInputs ==
    { Str(text) : text \in AddressTexts } \cup { Null, Undefined, Num(0) }

----------------------------------------------------------------------------
(* One application of a Canonicalizer function.                            *)

InitCanon == FacIdle /\ SigIdle /\ CanonIdle /\ ReqIdle

ApplyNormalizeHexNonce(value) ==
    /\ cpc = "idle"
    /\ cfn' = "normalizeHexNonce"
    /\ cin' = value
    /\ cout' = normalizeHexNonce(value)
    /\ cpc' = "done"
    /\ UNCHANGED nonCanonVars

ApplyNormalizeAddress(value) ==
    /\ cpc = "idle"
    /\ cfn' = "normalizeAddress"
    /\ cin' = value
    /\ cout' = normalizeAddress(value)
    /\ cpc' = "done"
    /\ UNCHANGED nonCanonVars

\* The functions are pure: nothing is kept for the next application.
CanonReturn ==
    /\ cpc \in {"done", "raised"}
    /\ cpc' = "idle"
    /\ cfn' = "none"
    /\ cin' = [t |-> "undefined"]
    /\ cout' = [t |-> "undefined"]
    /\ UNCHANGED nonCanonVars

NextCanon ==
    \/ \E value \in NonceInputs : ApplyNormalizeHexNonce(value)
    \/ \E value \in AddressInputs : ApplyNormalizeAddress(value)
    \/ CanonReturn

SpecCanon == InitCanon /\ [][NextCanon]_vars

----------------------------------------------------------------------------
(* Claims about the Canonicalizer, checked under SpecCanon.                *)

\* A string of 0x and exactly 64 lowercase hex characters.
IsCanonicalNonce(v) ==
    /\ v.t = "string"
    /\ Len(v.s) = 66
    /\ SubSeq(v.s, 1, 2) = <<"0", "x">>
    /\ AllIn(SubSeq(v.s, 3, Len(v.s)), LowerHexChars)

\* A non-empty string of hex digits, with or without a 0x prefix, or of
\* decimal digits.
IsHexOrDecimalText(v) ==
    /\ v.t = "string"
    /\ \/ (Len(v.s) >= 1 /\ AllIn(v.s, HexChars))
       \/ (Len(v.s) >= 3 /\ SubSeq(v.s, 1, 2) = <<"0", "x">>
           /\ AllIn(SubSeq(v.s, 3, Len(v.s)), HexChars))

\* C9: for every non-empty string of hex digits (with or without the 0x
\* prefix) or of decimal digits, normalizeHexNonce returns 0x followed by
\* exactly 64 lowercase hex characters.
C9_NonceAlways64Digits ==
    (cpc = "done" /\ cfn = "normalizeHexNonce" /\ IsHexOrDecimalText(cin))
    => IsCanonicalNonce(cout)

\* A string of 40 hex digits in any letter case, with or without 0x.
IsAddressText(v) ==
    /\ v.t = "string"
    /\ \/ (Len(v.s) = 40 /\ AllIn(v.s, HexChars))
       \/ (Len(v.s) = 42 /\ SubSeq(v.s, 1, 2) = <<"0", "x">>
           /\ AllIn(SubSeq(v.s, 3, 42), HexChars))

\* The 40 digits of an address text, in lower case.
AddressValue(v) == ToLowerCase(SubSeq(v.s, Len(v.s) - 39, Len(v.s)))

\* C10: for every syntactically valid address, in any letter case and with
\* or without the 0x prefix, normalizeAddress returns the checksummed
\* address of its value, hence the same for all its spellings.
C10_AddressChecksummedAnySpelling ==
    (cpc = "done" /\ cfn = "normalizeAddress" /\ IsAddressText(cin))
    => cout = Str(checksumAddress(<<"0", "x">> \o AddressValue(cin)))

----------------------------------------------------------------------------
(* normalizeIntegerString, src/index.js:226-249.                           *)

Bool(b) == [t |-> "boolean", b |-> b]

\* A JavaScript number that is not written as a small integer of the
\* checker: `digits` and `point` are the digits s and the exponent n of
\* Number::toString (the shortest digits that read back as the number, the
\* value being 0.digits * 10^point), `exact` the base-10 digits of the
\* value when it is an integer, <<>> otherwise.
Double(neg, digits, point, exact) ==
    [t |-> "number", neg |-> neg, digits |-> digits, point |-> point,
     exact |-> exact]

IsDouble(v) == v.t = "number" /\ "digits" \in DOMAIN v

RECURSIVE DigitsOfNat(_)
\* The base-10 digits of a natural number.
DigitsOfNat(n) ==
    IF n < 10 THEN <<HexCharOf(n)>>
    ELSE DigitsOfNat(n \div 10) \o <<HexCharOf(n % 10)>>

\* Number::toString of ECMAScript, the conversion behind String(number).
NumberToString(v) ==
    IF ~IsDouble(v)
    THEN IF v.n < 0 THEN <<"-">> \o DigitsOfNat(0 - v.n) ELSE DigitsOfNat(v.n)
    ELSE LET k == Len(v.digits)
             n == v.point
             sign == IF v.neg THEN <<"-">> ELSE <<>>
             e == IF n - 1 < 0 THEN <<"e", "-">> \o DigitsOfNat(1 - n)
                  ELSE <<"e", "+">> \o DigitsOfNat(n - 1)
         IN  sign \o
             (IF k <= n /\ n <= 21 THEN v.digits \o Rep("0", n - k)
              ELSE IF 0 < n /\ n <= 21
              THEN SubSeq(v.digits, 1, n) \o <<".">> \o SubSeq(v.digits, n + 1, k)
              ELSE IF 0 - 6 < n /\ n <= 0
              THEN <<"0", ".">> \o Rep("0", 0 - n) \o v.digits
              ELSE IF k = 1 THEN v.digits \o e
              ELSE <<Head(v.digits), ".">> \o Tail(v.digits) \o e)

sTrue == <<"t", "r", "u", "e">>
sFalse == <<"f", "a", "l", "s", "e">>
sObjectObject ==
    <<"[", "o", "b", "j", "e", "c", "t", " ", "O", "b", "j", "e", "c", "t", "]">>

\* String(value) for a value that is neither null nor undefined.
StringOf(value) ==
    CASE value.t = "string" -> value.s
      [] value.t = "number" -> NumberToString(value)
      [] value.t = "boolean" -> IF value.b THEN sTrue ELSE sFalse
      [] OTHER -> sObjectObject

\* String(value) raises a TypeError: the value is an object with an own
\* member `toString`, which in parsed JSON is never a function, so that
\* neither toString nor Object.prototype.valueOf gives a primitive.
StringOfThrows(value) ==
    /\ value.t = "object"
    /\ "f" \in DOMAIN value
    /\ "toString" \in DOMAIN value.f
    /\ value.f.toString.t # "absent"

\* The base-16^4 digits of a string of hex digits, most significant first.
HexGroupsOf(hex) ==
    LET m == (Len(hex) + 3) \div 4
        p == Rep("0", 4 * m - Len(hex)) \o hex
    IN  [j \in 1..m |-> 16 * 16 * 16 * HexVal(p[4 * j - 3])
                        + 16 * 16 * HexVal(p[4 * j - 2])
                        + 16 * HexVal(p[4 * j - 1]) + HexVal(p[4 * j])]

\* The base-10^4 digits of a number given by its base-16^4 digits: they
\* are no more than twice the groups.
DecimalLimbsOf(groups) ==
    Iterate(LAMBDA st : DivisionStep(st, GroupBase, LimbBase),
            [rest |-> groups, digits |-> <<>>], 2 * Len(groups)).digits

\* The four decimal digits of the limbs, in order.
DecimalDigitsOf(limbs) ==
    [i \in 1..(4 * Len(limbs)) |->
        LET l == limbs[(i + 3) \div 4]
            k == (i - 1) % 4
        IN  CASE k = 0 -> l \div 1000
              [] k = 1 -> (l \div 100) % 10
              [] k = 2 -> (l \div 10) % 10
              [] k = 3 -> l % 10]

\* The characters of a sequence of digit values without its leading zeros.
DigitChars(digits) ==
    LET d == StripZeros(digits)
    IN  IF d = <<>> THEN <<"0">> ELSE [i \in 1..Len(d) |-> HexCharOf(d[i])]

\* BigInt(s).toString() for a string of decimal digits.
DecimalBigIntToString(s) == DigitChars([i \in 1..Len(s) |-> HexVal(s[i])])

\* BigInt("0x" + hex).toString() for a string of hex digits.
HexBigIntToString(hex) ==
    DigitChars(DecimalDigitsOf(DecimalLimbsOf(HexGroupsOf(hex))))

\* normalizeIntegerString with its 0x branch (lines 241-247) left out.
normalizeIntegerStringDecimalOnly(value) ==
    IF value.t \in {"null", "undefined"} THEN value
    ELSE LET asString == Trim(StringOf(value))
         IN  IF AllIn(asString, DecChars) /\ asString # <<>>
             THEN Str(DecimalBigIntToString(asString))
             ELSE Str(asString)

\* normalizeIntegerString, src/index.js:226-249.  BigInt accepts every
\* string the two patterns let through, so the catch branches never run.
normalizeIntegerString(value) ==
    IF value.t \in {"null", "undefined"} THEN value
    ELSE LET asString == Trim(StringOf(value))
         IN  IF asString = <<>> THEN Str(asString)
             ELSE IF AllIn(asString, DecChars)
             THEN Str(DecimalBigIntToString(asString))
             ELSE IF IsPrefixedHex(asString)
             THEN Str(HexBigIntToString(Slice2(asString)))
             ELSE Str(asString)

----------------------------------------------------------------------------
(* The arguments given to normalizeIntegerString.                          *)

\* Integers are written with up to MaxLeadingZeros leading zeros.
MaxLeadingZeros == 2

\* 2^53 - 1, 2^64, 10^21 and 2^256 - 1 in base 10.
MaxSafeIntegerDigits == <<"9", "0", "0", "7", "1", "9", "9", "2", "5", "4", "7", "4", "0", "9", "9", "1">>
TwoTo64Digits == <<"1", "8", "4", "4", "6", "7", "4", "4", "0", "7", "3", "7", "0", "9", "5", "5", "1", "6", "1", "6">>
TenTo21Digits == <<"1">> \o Rep("0", 21)
MaxUint256Digits ==
    <<"1", "1", "5", "7", "9", "2", "0", "8", "9", "2", "3", "7", "3", "1", "6", "1", "9", "5", "4", "2", "3", "5", "7", "0", "9", "8", "5", "0", "0", "8", "6", "8", "7", "9", "0", "7", "8", "5", "3", "2", "6", "9", "9", "8", "4", "6", "6", "5", "6", "4", "0", "5", "6", "4", "0", "3", "9", "4", "5", "7", "5", "8", "4", "0", "0", "7", "9", "1", "3", "1", "2", "9", "6", "3", "9", "9", "3", "5">>

\* The values written as strings, in canonical base 10.
IntegerValues ==
    { <<"0">>, <<"7">>, <<"1", "2", "3">>, <<"5", "0", "0", "0", "0", "0">>,
      MaxSafeIntegerDigits, TwoTo64Digits, TenTo21Digits, MaxUint256Digits }

\* The string representations of a value: base 10 and base 16 with 0x or
\* 0X, each with leading zeros.
IntegerSpellings(v) ==
    UNION { { Rep("0", z) \o v,
              <<"0", "x">> \o Rep("0", z) \o BigIntToHex(v),
              <<"0", "X">> \o Rep("0", z)
                  \o [i \in 1..Len(BigIntToHex(v)) |-> UpperOf(BigIntToHex(v)[i])] } :
            z \in 0..MaxLeadingZeros }

\* Numbers: small integers, 2^53 - 1, 2^64 (whose shortest digits are
\* 18446744073709552 with 20 integer digits), 10^21, 1.5 and -1.
IntegerNumbers ==
    { Num(0), Num(7), Num(123), Num(500000),
      Double(FALSE, MaxSafeIntegerDigits, 16, MaxSafeIntegerDigits),
      Double(FALSE, <<"1", "8", "4", "4", "6", "7", "4", "4", "0", "7", "3", "7", "0", "9", "5", "5", "2">>, 20, TwoTo64Digits),
      Double(FALSE, <<"1">>, 22, TenTo21Digits) }

NonIntegerTexts ==
    { <<"-", "1">>, <<"1", ".", "5">>, <<"a", "b", "c">>, <<"1", "2", "a">>,
      <<" ", "a", "b", "c", " ">>, <<"-", "1", "\t">>, <<"0", "x">>,
      <<"0", "x", "g", "1">>, <<"1", "e", "3">>, <<"1", " ", "2">> }

NonIntegerInputs ==
    { Str(text) : text \in NonIntegerTexts }
    \cup { Num(0 - 1), Double(FALSE, <<"1", "5">>, 1, <<>>), Bool(TRUE),
           [t |-> "object"] }

IntegerInputs ==
    { Str(text) : text \in UNION { IntegerSpellings(v) : v \in IntegerValues } }
    \cup { Str(<<" ">> \o v \o <<" ">>) : v \in IntegerValues }
    \cup IntegerNumbers \cup NonIntegerInputs
    \cup { Null, Undefined, Str(<<>>), Str(<<" ", "\t">>) }

----------------------------------------------------------------------------
(* One application of a normalizer of integers or of records.              *)

ApplyNormalizeIntegerString(value) ==
    /\ cpc = "idle"
    /\ cfn' = "normalizeIntegerString"
    /\ cin' = value
    /\ cout' = normalizeIntegerString(value)
    /\ cpc' = "done"
    /\ UNCHANGED nonCanonVars

----------------------------------------------------------------------------
(* normalizeAuthorizationPayload, src/index.js:251-306.  An object is      *)
(* [t |-> "object", f |-> its properties]; a property the object does not  *)
(* have is Absent, and reads as undefined.                                 *)

Absent == [t |-> "absent"]

Obj(f) == [t |-> "object", f |-> f]

IsObject(v) == v.t = "object" /\ "f" \in DOMAIN v

\* obj[key]
Get(obj, key) == IF obj.f[key] = Absent THEN Undefined ELSE obj.f[key]

\* obj[key] = v, on the copy being built, with changed = true
Assign(st, key, v) == [o |-> [st.o EXCEPT !.f[key] = v], changed |-> TRUE]

\* value == null
IsNullish(value) == value.t \in {"null", "undefined"}

\* One pass of the loop over stringFields, lines 260-274.
StringField(st, field) ==
    LET cur == Get(st.o, field)
        normalizedField == Str(Trim(StringOf(cur)))
    IN  IF IsNullish(cur) THEN st
        ELSE IF normalizedField # cur THEN Assign(st, field, normalizedField)
        ELSE IF cur.t # "string" THEN Assign(st, field, normalizedField)
        ELSE st

\* Lines 276-286: normalizeAddress on one field.
AddressField(st, field) ==
    LET normalizedAddress == normalizeAddress(Get(st.o, field))
    IN  IF normalizedAddress # Get(st.o, field)
        THEN Assign(st, field, normalizedAddress) ELSE st

\* One pass of the loop over numberFields, lines 289-295.
NumberField(st, field) ==
    LET normalizedField == normalizeIntegerString(Get(st.o, field))
    IN  IF normalizedField # Get(st.o, field)
        THEN Assign(st, field, normalizedField) ELSE st

\* Lines 297-303.
NonceField(st) ==
    IF Get(st.o, "nonce").t = "string"
    THEN LET nonce == normalizeHexNonce(Get(st.o, "nonce"))
         IN  IF nonce # Get(st.o, "nonce") THEN Assign(st, "nonce", nonce) ELSE st
    ELSE st

RECURSIVE ForEach(_, _, _)
\* for (const field of fields) st = Op(st, field): each pass is computed
\* before the next one begins.
ForEach(Op(_, _), st, fields) ==
    IF fields = <<>> THEN st
    ELSE LET next == Op(st, Head(fields))
         IN  IF next.changed \in BOOLEAN THEN ForEach(Op, next, Tail(fields))
             ELSE next

stringFields == <<"from", "to", "value", "validAfter", "validBefore", "nonce">>
numberFields == <<"value", "validAfter", "validBefore">>

\* normalizeAuthorizationPayload with the nonce canonicalized but the flag
\* left as it was (line 301 left out).
normalizeAuthorizationPayloadSilentNonce(auth) ==
    IF ~IsObject(auth) THEN [auth |-> auth, changed |-> FALSE]
    ELSE LET s1 == ForEach(StringField, [o |-> auth, changed |-> FALSE], stringFields)
             s2 == AddressField(AddressField(s1, "from"), "to")
             s3 == ForEach(NumberField, s2, numberFields)
         IN  [auth |-> NonceField(s3).o, changed |-> s3.changed]

\* normalizeAuthorizationPayload, src/index.js:251-306
normalizeAuthorizationPayload(auth) ==
    IF ~IsObject(auth) THEN [auth |-> auth, changed |-> FALSE]
    ELSE LET s1 == ForEach(StringField, [o |-> auth, changed |-> FALSE], stringFields)
             s2 == AddressField(AddressField(s1, "from"), "to")
             s3 == ForEach(NumberField, s2, numberFields)
             s4 == NonceField(s3)
         IN  [auth |-> s4.o, changed |-> s4.changed]

\* normalizeAuthorizationPayload raises: String(normalized[field]) at line
\* 264 is outside every try block.
normalizeAuthorizationPayloadThrows(auth) ==
    /\ IsObject(auth)
    /\ \E i \in 1..Len(stringFields) :
          /\ ~IsNullish(Get(auth, stringFields[i]))
          /\ StringOfThrows(Get(auth, stringFields[i]))

----------------------------------------------------------------------------
(* The authorizations given to normalizeAuthorizationPayload.              *)

PayTo == Ox \o PayToDigits
Usdc == Ox \o UsdcDigits

sRouteAmount == <<"5", "0", "0", "0", "0", "0">>
sValidBefore == <<"1", "7", "0", "0", "0", "0", "0", "0", "0", "0">>
CanonicalNonce == Ox \o Rep("a", NonceDigits - 1) \o <<"1">>

FromValues ==
    { Absent, Null, Str(checksumAddress(PayTo)), Str(ToLowerCase(PayTo)),
      Str(<<" ", "0", "X">> \o PayToDigits \o <<" ">>) }
ToValues == { Absent, Str(checksumAddress(PayTo)), Str(ToLowerCase(Usdc)) }
ValueValues ==
    { Absent, Str(sRouteAmount), Str(<<"0", "x", "7", "a", "1", "2", "0">>),
      Num(500000), Str(<<" ", "0">> \o sRouteAmount) }
ValidAfterValues == { Str(<<"0">>), Num(0), Null }
ValidBeforeValues == { Str(sValidBefore), Absent }
NonceValues ==
    { Absent, Str(CanonicalNonce), Str(<<"1", "2", "3">>), Num(5),
      Str(Rep("A", NonceDigits)) }

Authorizations ==
    { Obj([from |-> from, to |-> to, value |-> value, validAfter |-> validAfter,
           validBefore |-> validBefore, nonce |-> nonce]) :
        from \in FromValues, to \in ToValues, value \in ValueValues,
        validAfter \in ValidAfterValues, validBefore \in ValidBeforeValues,
        nonce \in NonceValues }

\* What is given in place of a record: nothing, a string, an array.
NonRecords == { Null, Undefined, Str(PayTo), Num(1), [t |-> "array"] }

ApplyNormalizeAuthorizationPayload(auth) ==
    /\ cpc = "idle"
    /\ cfn' = "normalizeAuthorizationPayload"
    /\ cin' = auth
    /\ cout' = normalizeAuthorizationPayload(auth)
    /\ cpc' = "done"
    /\ UNCHANGED nonCanonVars

----------------------------------------------------------------------------
(* normalizePermit2AuthorizationPayload, src/index.js:442-549.  A field is *)
(* named by its path: <<key>> in the record, <<sub, key>> in the           *)
(* sub-record `permitted` or `witness`.                                    *)

\* Lines 447-457: the copy, with `permitted` and `witness` copied when they
\* are objects and read from the argument otherwise.
CopyPermit2(permit2Authorization) ==
    [permit2Authorization EXCEPT
        !.f.permitted = Get(permit2Authorization, "permitted"),
        !.f.witness = Get(permit2Authorization, "witness")]

\* The object that holds the field: the copy or one of its sub-records.
Target(o, path) == IF Len(path) = 1 THEN o ELSE Get(o, path[1])

Key(path) == path[Len(path)]

\* target[key]; undefined when the target is not an object
Read(o, path) ==
    IF IsObject(Target(o, path)) THEN Get(Target(o, path), Key(path))
    ELSE Undefined

\* target[key] = v, with changed = true
Write(st, path, v) ==
    [o |-> IF Len(path) = 1 THEN [st.o EXCEPT !.f[path[1]] = v]
           ELSE [st.o EXCEPT !.f[path[1]].f[path[2]] = v],
     changed |-> TRUE]

\* normalizeStringField, lines 460-474
normalizeStringField(st, path) ==
    LET cur == Read(st.o, path)
        asString == Str(Trim(StringOf(cur)))
    IN  IF ~IsObject(Target(st.o, path)) \/ IsNullish(cur) THEN st
        ELSE IF asString # cur THEN Write(st, path, asString)
        ELSE IF cur.t # "string" THEN Write(st, path, asString)
        ELSE st

\* Lines 486-508: normalizeAddress on one field; the sub-record fields are
\* guarded by the test that the sub-record is an object.
Permit2AddressField(st, path) ==
    LET normalizedAddress == normalizeAddress(Read(st.o, path))
    IN  IF IsObject(Target(st.o, path)) /\ normalizedAddress # Read(st.o, path)
        THEN Write(st, path, normalizedAddress) ELSE st

\* /^[0-9a-fA-F]+$/
IsHexDigits(text) == text # <<>> /\ AllIn(text, HexChars)

\* Lines 509-519: witness.extra
WitnessExtra(st) ==
    LET path == <<"witness", "extra">>
        trimmedExtra == Str(Trim(Read(st.o, path).s))
        s1 == IF trimmedExtra # Read(st.o, path) THEN Write(st, path, trimmedExtra)
              ELSE st
    IN  IF IsObject(Target(st.o, path)) /\ Read(st.o, path).t = "string"
        THEN IF IsHexDigits(Read(s1.o, path).s)
             THEN Write(s1, path, Str(Ox \o Read(s1.o, path).s))
             ELSE s1
        ELSE st

\* One pass of the loop over integerPaths, lines 528-546.
IntegerPath(st, path) ==
    LET normalizedValue == normalizeIntegerString(Read(st.o, path))
    IN  IF IsObject(Target(st.o, path)) /\ normalizedValue # Read(st.o, path)
        THEN Write(st, path, normalizedValue) ELSE st

stringPaths ==
    << <<"from">>, <<"spender">>, <<"nonce">>, <<"deadline">>,
       <<"permitted", "token">>, <<"permitted", "amount">>,
       <<"witness", "to">>, <<"witness", "validAfter">>, <<"witness", "extra">> >>

addressPaths ==
    << <<"from">>, <<"spender">>, <<"permitted", "token">>, <<"witness", "to">> >>

\* integerPaths without the paths into the sub-records.
integerPathsTopLevel == << <<"nonce">>, <<"deadline">> >>

integerPaths ==
    << <<"nonce">>, <<"deadline">>, <<"permitted", "amount">>,
       <<"witness", "validAfter">> >>

\* normalizePermit2AuthorizationPayload, src/index.js:442-549
normalizePermit2AuthorizationPayload(permit2Authorization) ==
    IF ~IsObject(permit2Authorization)
    THEN [permit2Authorization |-> permit2Authorization, changed |-> FALSE]
    ELSE LET s0 == [o |-> CopyPermit2(permit2Authorization), changed |-> FALSE]
             s1 == ForEach(normalizeStringField, s0, stringPaths)
             s2 == ForEach(Permit2AddressField, s1, addressPaths)
             s3 == WitnessExtra(s2)
             s4 == ForEach(IntegerPath, s3, integerPaths)
         IN  [permit2Authorization |-> s4.o, changed |-> s4.changed]

\* normalizePermit2AuthorizationPayload raises: String(obj[key]) at line 464
\* is outside every try block.
normalizePermit2AuthorizationPayloadThrows(permit2Authorization) ==
    /\ IsObject(permit2Authorization)
    /\ \E i \in 1..Len(stringPaths) :
          /\ IsObject(Target(CopyPermit2(permit2Authorization), stringPaths[i]))
          /\ ~IsNullish(Read(CopyPermit2(permit2Authorization), stringPaths[i]))
          /\ StringOfThrows(Read(CopyPermit2(permit2Authorization), stringPaths[i]))

----------------------------------------------------------------------------
(* The permits given to normalizePermit2AuthorizationPayload.              *)

PermittedValues ==
    { Absent, Null }
    \cup { Obj([token |-> Str(checksumAddress(Usdc)), amount |-> Str(sRouteAmount)]),
           Obj([token |-> Str(ToLowerCase(Usdc)),
                amount |-> Str(<<"0", "x", "7", "a", "1", "2", "0">>)]),
           Obj([token |-> Str(checksumAddress(Usdc)), amount |-> Num(500000)]) }

ExtraValues ==
    { Absent, Str(Ox), Str(Ox \o <<"a", "b">>), Str(<<"a", "b", "1", "2">>),
      Str(<<" ", "A", "B", " ">>), Str(<<"x", "y", "z">>), Num(12) }

WitnessValues ==
    { Absent, Str(<<"n", "o", "n", "e">>) }
    \cup { Obj([to |-> Str(checksumAddress(PayTo)), validAfter |-> Str(<<"0">>),
                extra |-> extra]) : extra \in ExtraValues }
    \cup { Obj([to |-> Str(ToLowerCase(PayTo)), validAfter |-> Num(0),
                extra |-> extra]) : extra \in ExtraValues }

Permits ==
    { Obj([from |-> from, spender |-> spender, nonce |-> nonce,
           deadline |-> deadline, permitted |-> permitted, witness |-> witness]) :
        from \in { Str(checksumAddress(PayTo)), Str(ToLowerCase(PayTo)) },
        spender \in { Str(checksumAddress(Usdc)),
                      Str(<<" ", "0", "X">> \o UsdcDigits \o <<" ">>) },
        nonce \in { Str(<<"1">>), Str(<<"0", "x", "0", "1">>) },
        deadline \in { Str(sValidBefore), Absent },
        permitted \in PermittedValues, witness \in WitnessValues }

ApplyNormalizePermit2AuthorizationPayload(permit2Authorization) ==
    /\ cpc = "idle"
    /\ cfn' = "normalizePermit2AuthorizationPayload"
    /\ cin' = permit2Authorization
    /\ cout' = normalizePermit2AuthorizationPayload(permit2Authorization)
    /\ cpc' = "done"
    /\ UNCHANGED nonCanonVars

NextNorm ==
    \/ \E value \in IntegerInputs : ApplyNormalizeIntegerString(value)
    \/ \E auth \in Authorizations \cup NonRecords :
           ApplyNormalizeAuthorizationPayload(auth)
    \/ \E permit2Authorization \in Permits \cup NonRecords :
           ApplyNormalizePermit2AuthorizationPayload(permit2Authorization)
    \/ CanonReturn

SpecNorm == InitCanon /\ [][NextNorm]_vars

----------------------------------------------------------------------------
(* Claims about normalizeIntegerString, checked under SpecNorm.            *)

\* A base-10 string with no leading zeros ("0" for zero).
IsCanonicalDecimal(v) ==
    /\ v.t = "string"
    /\ Len(v.s) >= 1
    /\ AllIn(v.s, DecChars)
    /\ (Len(v.s) > 1 => v.s[1] # "0")

\* v is the canonical base-10 string of the integer that the digits of a
\* base-10 string spell: the digits are those of v after leading zeros.
SpellsInDecimal(digits, v) ==
    /\ IsCanonicalDecimal(v)
    /\ Len(digits) >= Len(v.s)
    /\ SubSeq(digits, Len(digits) - Len(v.s) + 1, Len(digits)) = v.s
    /\ AllIn(SubSeq(digits, 1, Len(digits) - Len(v.s)), {"0"})

\* v is the canonical base-10 string of the integer that hex digits spell:
\* written in base 16, v gives those digits after leading zeros.
SpellsInHex(hex, v) ==
    /\ IsCanonicalDecimal(v)
    /\ LET h == BigIntToHex(v.s)
       IN  /\ Len(hex) >= Len(h)
           /\ ToLowerCase(SubSeq(hex, Len(hex) - Len(h) + 1, Len(hex))) = h
           /\ AllIn(SubSeq(hex, 1, Len(hex) - Len(h)), {"0"})

\* digits spell an integer no larger than the one bound spells (both
\* without leading zeros).
DigitsAtMost(digits, bound) ==
    IF Len(digits) # Len(bound) THEN Len(digits) < Len(bound)
    ELSE LET differ == { i \in 1..Len(digits) : digits[i] # bound[i] }
             first == CHOOSE i \in differ : \A j \in differ : i <= j
         IN  differ = {} \/ HexVal(digits[first]) < HexVal(bound[first])

\* A number that is a non-negative integer, and one that is at most
\* 2^53 - 1.
IsIntegerNumber(v) ==
    /\ v.t = "number"
    /\ IF IsDouble(v) THEN ~v.neg /\ v.exact # <<>> ELSE v.n >= 0

ExactDigits(v) == IF IsDouble(v) THEN v.exact ELSE DigitsOfNat(v.n)

IsSafeIntegerNumber(v) ==
    IsIntegerNumber(v) /\ DigitsAtMost(ExactDigits(v), MaxSafeIntegerDigits)

\* The result is the canonical base-10 string of the integer that the
\* argument represents, for an argument that is a base-10 string, a
\* 0x-prefixed hex string or one of the given numbers.
IntegerCanonicalized(value, result, numbers) ==
    /\ (value.t = "string" /\ value.s # <<>> /\ AllIn(value.s, DecChars))
           => SpellsInDecimal(value.s, result)
    /\ (value.t = "string" /\ IsPrefixedHex(value.s))
           => SpellsInHex(Slice2(value.s), result)
    /\ (value \in numbers) => result = Str(ExactDigits(value))

IsIntegerText(value) ==
    /\ value.t = "string"
    /\ \/ (value.s # <<>> /\ AllIn(value.s, DecChars))
       \/ (Len(value.s) >= 3 /\ SubSeq(value.s, 1, 2) = <<"0", "x">>
           /\ AllIn(Slice2(value.s), HexChars))

\* C17: for every input that is neither a base-10 digit string nor a
\* 0x-prefixed hex string, normalizeIntegerString returns the input
\* unchanged, same value and same type.
C17_NonNumericUnchanged ==
    (cpc = "done" /\ cfn = "normalizeIntegerString" /\ ~IsIntegerText(cin)
         /\ cin \in NonIntegerInputs)
    => cout = cin

----------------------------------------------------------------------------
(* Claims about normalizeAuthorizationPayload, checked under SpecNorm.     *)

\* A string without whitespace at either end.
IsTrimmedString(v) ==
    v.t = "string" /\ (v.s # <<>> => (Head(v.s) \notin SpaceChars
                                      /\ v.s[Len(v.s)] \notin SpaceChars))

\* The canonical form of a field that is present: the Canonicalizer
\* function of the field applied to the text of the value.
CanonicalField(field, value) ==
    LET text == Str(Trim(StringOf(value)))
    IN  CASE field \in {"from", "to"} -> normalizeAddress(text)
          [] field = "nonce" -> normalizeHexNonce(text)
          [] OTHER -> normalizeIntegerString(text)

\* C12: normalizeAuthorizationPayload returns changed = true exactly when
\* some field of the returned record differs from the same field of the
\* input; a field absent or null in the input is absent or null in the
\* output, and every other field is canonicalized.
C12_ChangedIffSomeFieldDiffers ==
    (cpc = "done" /\ cfn = "normalizeAuthorizationPayload" /\ IsObject(cin))
    => /\ IsObject(cout.auth)
       /\ cout.changed = (\E field \in DOMAIN cin.f : cout.auth.f[field] # cin.f[field])
       /\ \A field \in DOMAIN cin.f :
            IF cin.f[field] \in {Absent, Null}
            THEN cout.auth.f[field] = cin.f[field]
            ELSE /\ IsTrimmedString(cout.auth.f[field])
                 /\ cout.auth.f[field] = CanonicalField(field, cin.f[field])

\* An authorization without `to` whose other fields were rewritten: `to` is
\* still absent and changed is true.
C12_Witness ==
    /\ cpc = "done" /\ cfn = "normalizeAuthorizationPayload" /\ IsObject(cin)
    /\ cin.f.to = Absent /\ cout.auth.f.to = Absent
    /\ cin.f.from = Str(ToLowerCase(PayTo))
    /\ cout.auth.f.from = Str(checksumAddress(PayTo))
    /\ cin.f.value = Num(500000) /\ cout.auth.f.value = Str(sRouteAmount)
    /\ cin.f.nonce = Str(<<"1", "2", "3">>) /\ IsCanonicalNonce(cout.auth.f.nonce)
    /\ cout.changed

----------------------------------------------------------------------------
(* Claims about normalizePermit2AuthorizationPayload, under SpecNorm.      *)

\* The text of a value that is present.
TextOf(value) == Str(Trim(StringOf(value)))

\* witness.extra as the claim has it: a string of hex digits without the
\* 0x prefix gets the prefix, any other string is kept (trimmed).
PrefixedExtra(value) ==
    IF value.t = "string" /\ IsHexDigits(Trim(value.s))
    THEN Str(Ox \o Trim(value.s)) ELSE TextOf(value)

\* What the claim gives for the field at a path whose value is present.
Permit2CanonicalField(path, value) ==
    CASE path \in {<<"from">>, <<"spender">>, <<"permitted", "token">>,
                   <<"witness", "to">>} -> normalizeAddress(TextOf(value))
      [] path \in {<<"nonce">>, <<"deadline">>, <<"permitted", "amount">>,
                   <<"witness", "validAfter">>} -> normalizeIntegerString(TextOf(value))
      [] OTHER -> PrefixedExtra(TextOf(value))

Permit2Paths == { stringPaths[i] : i \in 1..Len(stringPaths) }

\* C19: normalizePermit2AuthorizationPayload canonicalizes from, spender,
\* permitted.token and witness.to as addresses, nonce, deadline,
\* permitted.amount and witness.validAfter as integers, prefixes a hex
\* witness.extra with 0x, leaves a missing sub-record alone, and returns
\* changed = true exactly when some field of the result differs from the
\* input.
C19_Permit2FieldsCanonicalized ==
    (cpc = "done" /\ cfn = "normalizePermit2AuthorizationPayload" /\ IsObject(cin))
    => LET out == cout.permit2Authorization
       IN  /\ IsObject(out)
           /\ \A sub \in {"permitted", "witness"} :
                ~IsObject(Get(cin, sub)) => Get(out, sub) = Get(cin, sub)
           /\ \A path \in Permit2Paths :
                IF IsNullish(Read(cin, path)) THEN Read(out, path) = Read(cin, path)
                ELSE Read(out, path) = Permit2CanonicalField(path, Read(cin, path))
           /\ cout.changed = (\E path \in Permit2Paths : Read(out, path) # Read(cin, path))

\* A permit without `permitted` whose witness fields were rewritten:
\* witness.to checksummed, witness.validAfter in base 10, witness.extra
\* prefixed.
C19_Witness ==
    /\ cpc = "done" /\ cfn = "normalizePermit2AuthorizationPayload" /\ IsObject(cin)
    /\ cin.f.permitted = Absent
    /\ Get(cout.permit2Authorization, "permitted") = Undefined
    /\ IsObject(cin.f.witness)
    /\ cin.f.witness.f.to = Str(ToLowerCase(PayTo))
    /\ Read(cout.permit2Authorization, <<"witness", "to">>) = Str(checksumAddress(PayTo))
    /\ cin.f.witness.f.extra = Str(<<"a", "b", "1", "2">>)
    /\ Read(cout.permit2Authorization, <<"witness", "extra">>)
           = Str(<<"0", "x", "a", "b", "1", "2">>)
    /\ cin.f.nonce = Str(<<"0", "x", "0", "1">>)
    /\ cout.permit2Authorization.f.nonce = Str(<<"1">>)
    /\ cout.changed

----------------------------------------------------------------------------
(* Further claims about the Canonicalizer, checked under SpecCanon.        *)

\* C15: normalizeAddress is idempotent on every input: applied to its own
\* result it returns that result, for valid addresses, invalid strings,
\* strings inside whitespace, empty strings and values that are not
\* strings.
C15_NormalizeAddressIdempotent ==
    (cpc = "done" /\ cfn = "normalizeAddress") => normalizeAddress(cout) = cout

\* An address written in upper case with 0X inside whitespace has been
\* rewritten to its checksummed spelling, which normalizeAddress keeps.
C15_Witness ==
    /\ cpc = "done" /\ cfn = "normalizeAddress"
    /\ cin = Str(<<" ", "0", "X">>
                 \o [i \in 1..AddressDigits |-> UpperOf(PayToDigits[i])]
                 \o <<"\t", " ">>)
    /\ cout = Str(checksumAddress(PayTo))
    /\ cout # cin
    /\ normalizeAddress(cout) = cout

\* A string that is an address: 40 hex digits, with or without the prefix
\* in either case, possibly inside whitespace.
SpellsAddress(text) ==
    LET t == Trim(text)
    IN  \/ (Len(t) = AddressDigits /\ AllIn(t, HexChars))
        \/ (Len(t) = AddressDigits + 2 /\ HasPrefix0x(t) /\ AllIn(Slice2(t), HexChars))

\* C16: for every string that is not a syntactically valid address,
\* normalizeAddress returns the input string unchanged, character for
\* character.
C16_InvalidAddressUnchanged ==
    (cpc = "done" /\ cfn = "normalizeAddress" /\ cin.t = "string"
         /\ ~SpellsAddress(cin.s))
    => cout = cin

\* The hex digits of the value of a nonce text: those of a 0x-prefixed
\* text or of a text with a hex letter, and the base-16 digits of the
\* number that a text of decimal digits spells.
NonceHexDigits(text) ==
    IF HasPrefix0x(text) THEN ToLowerCase(Slice2(text))
    ELSE IF AllIn(text, DecChars) THEN BigIntToHex(text)
    ELSE ToLowerCase(text)

\* A nonce text to which the claim's rule applies: 0x-prefixed hex, hex
\* with a letter, or decimal digits (64 decimal digits, which read both
\* ways, are left out).
IsNonceText(text) ==
    \/ IsPrefixedHex(text)
    \/ (text # <<>> /\ AllIn(text, HexChars) /\ ~AllIn(text, DecChars))
    \/ (text # <<>> /\ AllIn(text, DecChars) /\ Len(text) # NonceDigits)

\* C18: normalizeHexNonce keeps the low-order 64 hex digits of the value:
\* fewer digits are left-padded with zeros, more digits keep only the last
\* 64, and decimal input is converted to hex and treated by the same rule.
C18_NonceLowOrder64Digits ==
    (cpc = "done" /\ cfn = "normalizeHexNonce" /\ cin.t = "string"
         /\ IsNonceText(cin.s))
    => cout = Str(Ox \o PadStart(SliceLast(NonceHexDigits(cin.s), NonceDigits),
                               NonceDigits, "0"))

\* C28: normalizeHexNonce applied to its own result returns that result, for
\* hex strings with or without prefix, decimal strings of any magnitude,
\* malformed text and values that are not strings.
C28_NormalizeHexNonceIdempotent ==
    (cpc = "done" /\ cfn = "normalizeHexNonce") => normalizeHexNonce(cout) = cout

\* C30: every string without prefix made only of decimal digits is read by
\* normalizeHexNonce as a base-10 number, whatever its length: the result is
\* 0x and the hex digits of that number, left-padded to 64.
C30_DecimalDigitsReadInBaseTen ==
    (cpc = "done" /\ cfn = "normalizeHexNonce" /\ cin.t = "string"
         /\ cin.s # <<>> /\ AllIn(cin.s, DecChars))
    => cout = Str(Ox \o PadStart(BigIntToHex(cin.s), NonceDigits, "0"))

----------------------------------------------------------------------------
(* normalizeSignaturePayload as a function, with the parser of the         *)
(* library: the loop of lines 342-364 run to its end.                      *)

RECURSIVE UnwrapLoop(_, _)
UnwrapLoop(res, depth) ==
    IF ~LoopContinues(depth) THEN res
    ELSE LET b == LoopBody(res, parseErc6492Signature(res.signature.s))
         IN  IF b.exit THEN b.res ELSE UnwrapLoop(b.res, depth + 1)

\* normalizeSignaturePayload, src/index.js:308-429
normalizeSignaturePayload(signature, serializes) ==
    LET b == BeforeLoop(signature, serializes)
        r == IF b.loop THEN UnwrapLoop(b.res, 0) ELSE b.res
    IN  IF b.nested THEN [r EXCEPT !.changed = TRUE] ELSE r

\* C23: for an object that is no array, a string `signature` member is given
\* to the string case once and the result reported with changed = true, also
\* when r, s and v are there; otherwise string r and s with a v or yParity
\* give the serialized compact signature with changed = true, or the object
\* itself with changed = false when serialization fails; every other object
\* and every array comes back as it is with changed = false.
C23_ObjectSignatureCases ==
    (SigEnded /\ sin.t = "object")
    => IF sin.arr THEN SigResult = Unchanged(sin)
       ELSE IF sin.signature.t = "string"
       THEN sparser = "erc6492"
            => SigResult = [normalizeSignaturePayload(sin.signature, TRUE)
                               EXCEPT !.changed = TRUE]
       ELSE IF HasRsv(sin)
       THEN \/ SigResult = Result(Serialized(sin.r, sin.s, sin.v, sin.yParity),
                                  TRUE, FALSE, FALSE, 0)
            \/ SigResult = Unchanged(sin)
       ELSE SigResult = Unchanged(sin)

\* An object with a string signature member next to r, s and v.
C23_Witness ==
    /\ SigEnded
    /\ sin = SigObject(Str(Sig65), HexR, HexS, Num(27), Undefined)
    /\ SigResult = Result(Str(Sig65), TRUE, FALSE, FALSE, 0)

\* The number of nested wrappers of the text given to the string case: each
\* wrapper ends with its own magic suffix.
WrapperCount(signature) ==
    IF \/ signature.t = "string"
       \/ (signature.t = "object" /\ ~signature.arr /\ signature.signature.t = "string")
    THEN Cardinality({ i \in 1..Len(InputText(signature)) :
                         InputText(signature)[i].k = "magic" })
    ELSE 0

\* normalizeSignaturePayload applied to the signature it has returned.  An
\* object is returned only when it was not serialized, and the library
\* fails on it again.
Reapplied == normalizeSignaturePayload(SigResult.signature, FALSE)

IsFixedPoint ==
    /\ Reapplied.signature = SigResult.signature
    /\ ~Reapplied.changed
    /\ Reapplied.erc6492Depth = 0

\* C29 as stated: applied to the signature it returned, the function
\* returns that signature with changed = false and erc6492Depth = 0, for
\* every input whatever its number of nested wrappers.
C29_IdempotentAnyDepth ==
    (SigEnded /\ sparser = "erc6492") => IsFixedPoint

\* C29, amended: applied to the signature it returned, the function returns
\* that signature with changed = false and erc6492Depth = 0, for every
\* input with at most 5 nested wrappers; with more, the result still
\* carries wrappers and a second application removes further ones.
C29_IdempotentUpToFiveWrappers ==
    (SigEnded /\ sparser = "erc6492")
    => /\ WrapperCount(sin) <= MaxUnwrapDepth => IsFixedPoint
       /\ sin = Str(WrapN(Sig65, MaxUnwrapDepth + 1))
            => /\ Reapplied.signature = Str(Sig65)
               /\ Reapplied.changed
               /\ Reapplied.erc6492Depth = 1

\* Five wrappers were removed and the bare signature is a fixed point.
C29_Witness ==
    /\ SigEnded
    /\ sparser = "erc6492"
    /\ sin = Str(WrapN(Sig65, MaxUnwrapDepth))
    /\ WrapperCount(sin) = MaxUnwrapDepth
    /\ SigResult.signature = Str(Sig65)
    /\ SigResult.erc6492Depth = MaxUnwrapDepth
    /\ IsFixedPoint

----------------------------------------------------------------------------
(* The helpers of the hooks: maskAddress, safeBigInt, JSON.stringify.      *)

sEllipsis == <<".", ".", ".">>

\* `address.length < 10`
MinMaskedLength == 10

\* maskAddress that returns its argument.
maskAddressNone(address) == address

\* maskAddress, src/index.js:162-167
maskAddress(address) ==
    IF address.t # "string" \/ Len(address.s) < MinMaskedLength THEN address
    ELSE Str(SubSeq(address.s, 1, 6) \o sEllipsis
             \o SubSeq(address.s, Len(address.s) - 3, Len(address.s)))

\* A BigInt: its sign and its base-10 digits.
BigInt(neg, digits) == [t |-> "bigint", neg |-> neg, digits |-> digits]

\* safeBigInt, src/index.js:431-440.  BigInt(value) reads a string of
\* decimal digits, signed or not, or of 0x and hex digits, whitespace
\* around it ignored, and an integer number; what it cannot read makes it
\* throw, and the catch gives null.
safeBigInt(value) ==
    IF IsNullish(value) \/ value = Str(<<>>) THEN Null
    ELSE IF value.t = "string"
    THEN LET text == Trim(value.s)
         IN  IF text = <<>> THEN BigInt(FALSE, <<"0">>)
             ELSE IF AllIn(text, DecChars)
             THEN BigInt(FALSE, DecimalBigIntToString(text))
             ELSE IF IsPrefixedHex(text)
             THEN BigInt(FALSE, HexBigIntToString(Slice2(text)))
             ELSE IF Head(text) \in {"-", "+"} /\ Len(text) > 1
                     /\ AllIn(Tail(text), DecChars)
             THEN BigInt(Head(text) = "-"
                             /\ DecimalBigIntToString(Tail(text)) # <<"0">>,
                         DecimalBigIntToString(Tail(text)))
             ELSE Null
    ELSE IF value.t = "number"
    THEN IF IsDouble(value)
         THEN IF value.exact # <<>> THEN BigInt(value.neg, value.exact) ELSE Null
         ELSE BigInt(value.n < 0, DigitsOfNat(IF value.n < 0 THEN 0 - value.n
                                              ELSE value.n))
    ELSE IF value.t = "boolean"
    THEN BigInt(FALSE, IF value.b THEN <<"1">> ELSE <<"0">>)
    ELSE Null

RECURSIVE DigitsToNat(_)
DigitsToNat(digits) ==
    IF digits = <<>> THEN 0
    ELSE 10 * DigitsToNat(SubSeq(digits, 1, Len(digits) - 1))
         + HexVal(digits[Len(digits)])

\* The integers the checker computes with have at most this many digits.
MaxMachineDigits == 9

\* Number(parsed - currentTimestamp): the difference when the BigInt is
\* within the integers of the checker, and the pair otherwise.
DeltaSeconds(parsed, currentTimestamp) ==
    IF parsed = Null THEN Null
    ELSE IF Len(parsed.digits) <= MaxMachineDigits
    THEN Num((IF parsed.neg THEN 0 - DigitsToNat(parsed.digits)
              ELSE DigitsToNat(parsed.digits)) - currentTimestamp)
    ELSE [t |-> "number", minuend |-> parsed, subtrahend |-> currentTimestamp]

\* parsed.toString() === other.toString(), both non-null
SameBigInt(parsed, other) == parsed # Null /\ other # Null /\ parsed = other

RECURSIVE JsonLength(_)
RECURSIVE JsonEntriesLength(_, _)
\* JSON.stringify(value).length for a value whose strings are sequences of
\* characters: a property holding undefined is left out, a tab is written
\* as two characters.
JsonLength(value) ==
    CASE value.t = "string" ->
             2 + Len(value.s) + Len(SelectSeq(value.s, LAMBDA c : c = "\t"))
      [] value.t = "number" -> Len(NumberToString(value))
      [] value.t = "boolean" -> IF value.b THEN 4 ELSE 5
      [] value.t = "null" -> 4
      [] value.t = "array" -> 2
      [] OTHER ->
             LET keys == { k \in DOMAIN value.f : ~(value.f[k].t \in {"absent", "undefined"}) }
             IN  2 + JsonEntriesLength(value, keys)
                   + (IF keys = {} THEN 0 ELSE Cardinality(keys) - 1)

JsonEntriesLength(obj, keys) ==
    IF keys = {} THEN 0
    ELSE LET k == CHOOSE key \in keys : TRUE
         IN  Len(k) + 3 + JsonLength(obj.f[k]) + JsonEntriesLength(obj, keys \ {k})

\* JSON.stringify(signature).length for the signature of a payload, whose
\* strings are sequences of blocks.
SignatureJsonLength(signature) ==
    CASE signature.t = "string" -> 2 + TLen(signature.s)
      [] signature.t = "object" /\ "arr" \in DOMAIN signature /\ ~signature.arr ->
             LET keys == { k \in {"signature", "r", "s", "v", "yParity"} :
                             signature[k].t # "undefined" }
                 len(k) == IF signature[k].t = "string" THEN 2 + TLen(signature[k].s)
                           ELSE JsonLength(signature[k])
             IN  2 + (IF keys = {} THEN 0 ELSE Cardinality(keys) - 1)
                   + (IF "signature" \in keys THEN 12 + len("signature") ELSE 0)
                   + (IF "r" \in keys THEN 4 + len("r") ELSE 0)
                   + (IF "s" \in keys THEN 4 + len("s") ELSE 0)
                   + (IF "v" \in keys THEN 4 + len("v") ELSE 0)
                   + (IF "yParity" \in keys THEN 10 + len("yParity") ELSE 0)
      [] signature.t = "object" -> 2
      [] OTHER -> JsonLength(signature)

----------------------------------------------------------------------------
(* The before-verify hook, src/index.js:740-891.  A payment payload is     *)
(* [x402Version, accepted, payload]; its `payload` is an object with the   *)
(* properties authorization, permit2Authorization, transaction and         *)
(* signature, or a value that is no object.  In the logged record a        *)
(* string the code chooses is a Label, a list of keys a Keys value.        *)

Label(name) == [t |-> "label", name |-> name]
Keys(obj) ==
    [t |-> "array",
     items |-> IF IsObject(obj) THEN { k \in DOMAIN obj.f : obj.f[k] # Absent }
               ELSE {}]

\* typeof value
TypeOf(value) ==
    CASE value.t \in {"string", "number", "boolean", "undefined"} -> value.t
      [] OTHER -> "object"

\* value?.[key] on a value that may be no object
Prop(value, key) == IF IsObject(value) THEN Get(value, key) ELSE Undefined

\* Lines 744-753
PayloadType(payload) ==
    IF IsObject(payload)
    THEN IF Truthy(Get(payload, "authorization")) THEN "authorization"
         ELSE IF Truthy(Get(payload, "permit2Authorization")) THEN "permit2Authorization"
         ELSE IF Truthy(Get(payload, "transaction")) THEN "transaction"
         ELSE "object"
    ELSE TypeOf(payload)

\* a.toLowerCase() === b.toLowerCase() for two strings (lines 803-809)
EqualsIgnoringCase(a, b) ==
    Bool(a.t = "string" /\ b.t = "string" /\ ToLowerCase(a.s) = ToLowerCase(b.s))

\* Lines 798-825
AuthSummary(auth, requirements, currentTimestamp) ==
    IF ~Truthy(auth) THEN Null
    ELSE Obj([from |-> maskAddress(Prop(auth, "from")),
              to |-> maskAddress(Prop(auth, "to")),
              fromEqualsPayTo |-> EqualsIgnoringCase(Prop(auth, "from"), requirements.payTo),
              toEqualsPayTo |-> EqualsIgnoringCase(Prop(auth, "to"), requirements.payTo),
              value |-> Prop(auth, "value"),
              valueEqualsAmount |->
                  Bool(SameBigInt(safeBigInt(Prop(auth, "value")),
                                  safeBigInt(requirements.amount))),
              hasValue |-> Bool(Prop(auth, "value").t = "string"),
              hasValidAfter |-> Bool(Prop(auth, "validAfter").t = "string"),
              hasValidBefore |-> Bool(Prop(auth, "validBefore").t = "string"),
              validAfterDeltaSeconds |->
                  DeltaSeconds(safeBigInt(Prop(auth, "validAfter")), currentTimestamp),
              validBeforeDeltaSeconds |->
                  DeltaSeconds(safeBigInt(Prop(auth, "validBefore")), currentTimestamp),
              nonceLength |-> IF Prop(auth, "nonce").t = "string"
                              THEN Num(Len(Prop(auth, "nonce").s)) ELSE Null,
              nonceStartsWith0x |->
                  IF Prop(auth, "nonce").t = "string"
                  THEN Bool(Len(Prop(auth, "nonce").s) >= 2
                            /\ SubSeq(Prop(auth, "nonce").s, 1, 2) = Ox)
                  ELSE Null])

\* Lines 826-854
Permit2Summary(permit2Authorization, requirements, currentTimestamp) ==
    IF ~Truthy(permit2Authorization) THEN Null
    ELSE LET permitted == Prop(permit2Authorization, "permitted")
             witness == Prop(permit2Authorization, "witness")
         IN  Obj([from |-> maskAddress(Prop(permit2Authorization, "from")),
                  spender |-> maskAddress(Prop(permit2Authorization, "spender")),
                  nonce |-> Prop(permit2Authorization, "nonce"),
                  deadline |-> Prop(permit2Authorization, "deadline"),
                  deadlineDeltaSeconds |->
                      DeltaSeconds(safeBigInt(Prop(permit2Authorization, "deadline")),
                                   currentTimestamp),
                  permittedToken |-> maskAddress(Prop(permitted, "token")),
                  permittedAmount |-> Prop(permitted, "amount"),
                  permittedAmountEqualsRoute |->
                      Bool(SameBigInt(safeBigInt(Prop(permitted, "amount")),
                                      safeBigInt(requirements.amount))),
                  witnessTo |-> maskAddress(Prop(witness, "to")),
                  witnessToEqualsPayTo |->
                      EqualsIgnoringCase(Prop(witness, "to"), requirements.payTo),
                  witnessValidAfter |-> Prop(witness, "validAfter"),
                  witnessValidAfterDeltaSeconds |->
                      DeltaSeconds(safeBigInt(Prop(witness, "validAfter")),
                                   currentTimestamp),
                  witnessExtra |-> Prop(witness, "extra")])

\* Lines 855-867
SignatureSummary(normalizedSignature) ==
    LET isString == normalizedSignature.t = "string"
        text == normalizedSignature.s
    IN  Obj([type |-> Label(TypeOf(normalizedSignature)),
             isString |-> Bool(isString),
             length |-> IF isString THEN Num(TLen(text)) ELSE Null,
             startsWith0x |-> IF isString THEN Bool(StartsWithPrefix(text)) ELSE Null,
             hasWhitespace |->
                 IF isString THEN Bool(\E i \in 1..Len(text) : text[i].k = "ws")
                 ELSE Null,
             isHex |-> IF isString THEN Bool(MatchesPrefixedHex(text)) ELSE Null,
             looksErc6492Wrapped |->
                 IF isString THEN Bool(TLen(text) > MaxPlainLength) ELSE Null])

\* JSON.stringify(payload).length, line 879
PayloadJsonLength(payload) ==
    IF ~Truthy(payload) THEN 0
    ELSE IF ~IsObject(payload) THEN JsonLength(payload)
    ELSE JsonLength([payload EXCEPT !.f.signature = Absent])
         + (IF payload.f.signature.t \in {"absent", "undefined"} THEN 0
            ELSE 12 + SignatureJsonLength(payload.f.signature)
                 + (IF \E k \in DOMAIN payload.f \ {"signature"} :
                          payload.f[k].t \notin {"absent", "undefined"}
                    THEN 1 ELSE 0))

\* Normalizers that run the permit normalizer next to the authorization one.
NormalizersBoth(payload, serializes) ==
    [type |-> PayloadType(payload),
     auth |-> IF PayloadType(payload) = "authorization"
              THEN normalizeAuthorizationPayload(Get(payload, "authorization"))
              ELSE [auth |-> Null, changed |-> FALSE],
     permit2 |-> IF IsObject(payload) /\ Truthy(Get(payload, "permit2Authorization"))
                 THEN normalizePermit2AuthorizationPayload(
                          Get(payload, "permit2Authorization"))
                 ELSE [permit2Authorization |-> Null, changed |-> FALSE],
     sig |-> IF IsObject(payload) /\ payload.f.signature # Absent
             THEN normalizeSignaturePayload(Get(payload, "signature"), serializes)
             ELSE Unchanged(Undefined)]

\* What the normalizers make of the parts of a payload, lines 754-790: the
\* authorization when the payload is of that type, the permit when it is of
\* that type, the signature when the payload has one.
Normalizers(payload, serializes) ==
    [type |-> PayloadType(payload),
     auth |-> IF PayloadType(payload) = "authorization"
              THEN normalizeAuthorizationPayload(Get(payload, "authorization"))
              ELSE [auth |-> Null, changed |-> FALSE],
     permit2 |-> IF PayloadType(payload) = "permit2Authorization"
                 THEN normalizePermit2AuthorizationPayload(
                          Get(payload, "permit2Authorization"))
                 ELSE [permit2Authorization |-> Null, changed |-> FALSE],
     sig |-> IF IsObject(payload) /\ payload.f.signature # Absent
             THEN normalizeSignaturePayload(Get(payload, "signature"), serializes)
             ELSE Unchanged(Undefined)]

\* Lines 765-790: the authorization, the permit and the signature replaced
\* by their normal form n when that form differs.
Replaced(payload, n) ==
    IF ~IsObject(payload) THEN payload
    ELSE [payload EXCEPT
            !.f.authorization = IF n.auth.changed THEN n.auth.auth ELSE @,
            !.f.permit2Authorization =
                IF n.permit2.changed THEN n.permit2.permit2Authorization ELSE @,
            !.f.signature = IF n.sig.changed THEN n.sig.signature ELSE @]

\* The payload after lines 765-790.
NormalizedPayload(payload, serializes) ==
    Const(LAMBDA n : Replaced(payload, n), Normalizers(payload, serializes))

\* The record given to console.log, lines 869-890, and the payment payload
\* as the hook leaves it, for the normal forms n and the payload `after`
\* the replacements.
HookResult(paymentPayload, requirements, currentTimestamp, n, after) ==
        [paymentPayload |-> [paymentPayload EXCEPT !.payload = after],
         record |->
            [event |-> Label("x402_before_verify"),
             x402Version |-> paymentPayload.x402Version,
             acceptedScheme |-> Prop(paymentPayload.accepted, "scheme"),
             acceptedNetwork |-> Prop(paymentPayload.accepted, "network"),
             acceptedAssetTransferMethod |->
                 Prop(paymentPayload.accepted, "assetTransferMethod"),
             routeNetwork |-> requirements.network,
             routeAmount |-> requirements.amount,
             routeAssetTransferMethod |-> requirements.assetTransferMethod,
             payloadType |-> Label(n.type),
             payloadKeys |-> Keys(paymentPayload.payload),
             payloadJsonLength |-> Num(PayloadJsonLength(after)),
             authKeys |-> Keys(n.auth.auth),
             authSummary |-> AuthSummary(n.auth.auth, requirements, currentTimestamp),
             authWasNormalized |-> Bool(n.auth.changed),
             permit2Summary |->
                 Permit2Summary(n.permit2.permit2Authorization, requirements,
                                currentTimestamp),
             permit2WasNormalized |-> Bool(n.permit2.changed),
             signatureSummary |-> SignatureSummary(n.sig.signature),
             signatureWasNormalized |-> Bool(n.sig.changed),
             signatureWasErc6492 |-> Bool(n.sig.wasErc6492),
             signatureErc6492Unwrapped |-> Bool(n.sig.erc6492Unwrapped),
             signatureErc6492Depth |-> Num(n.sig.erc6492Depth)]]

\* The whole hook, src/index.js:740-891.  `currentTimestamp` is Date.now()
\* in seconds, `serializes` whether the library's serializeSignature
\* succeeds.
onBeforeVerify(paymentPayload, requirements, currentTimestamp, serializes) ==
    Const(LAMBDA n :
              Const(LAMBDA after : HookResult(paymentPayload, requirements,
                                              currentTimestamp, n, after),
                    Replaced(paymentPayload.payload, n)),
          Normalizers(paymentPayload.payload, serializes))

\* The hook raises: the normalizer it runs at line 766 or 773 does.  Every
\* other conversion of the hook is inside a try block or guarded by typeof.
onBeforeVerifyThrows(paymentPayload) ==
    \/ /\ PayloadType(paymentPayload.payload) = "authorization"
       /\ normalizeAuthorizationPayloadThrows(Get(paymentPayload.payload, "authorization"))
    \/ /\ PayloadType(paymentPayload.payload) = "permit2Authorization"
       /\ normalizePermit2AuthorizationPayloadThrows(
              Get(paymentPayload.payload, "permit2Authorization"))

----------------------------------------------------------------------------
(* The payment payloads and requirements given to the hooks.               *)

sExact == <<"e", "x", "a", "c", "t">>
sBase == <<"e", "i", "p", "1", "5", "5", ":", "8", "4", "5", "3">>
sEip3009 == <<"e", "i", "p", "3", "0", "0", "9">>
sPingAmount == <<"1", "0", "0", "0", "0">>

\* The requirements of the routes, lines 644-698, as the resource server
\* hands them to the hooks.
RouteRequirements ==
    { [network |-> Str(sBase), scheme |-> Str(sExact), payTo |-> Str(PayTo),
       amount |-> Str(sRouteAmount), assetTransferMethod |-> Str(sEip3009)],
      [network |-> Str(sBase), scheme |-> Str(sExact), payTo |-> Str(PayTo),
       amount |-> Str(sPingAmount), assetTransferMethod |-> Undefined] }

PaymentPayload(payload) ==
    [x402Version |-> Num(2),
     accepted |-> Obj([scheme |-> Str(sExact), network |-> Str(sBase),
                       assetTransferMethod |-> Str(sEip3009)]),
     payload |-> payload]

Payload(authorization, permit2Authorization, transaction, signature) ==
    Obj([authorization |-> authorization,
         permit2Authorization |-> permit2Authorization,
         transaction |-> transaction, signature |-> signature])

\* An authorization in canonical form, one that is not, one without `to`.
CanonicalAuthorization ==
    Obj([from |-> Str(checksumAddress(Usdc)), to |-> Str(checksumAddress(PayTo)),
         value |-> Str(sRouteAmount), validAfter |-> Str(<<"0">>),
         validBefore |-> Str(sValidBefore), nonce |-> Str(CanonicalNonce)])
LooseAuthorization ==
    Obj([from |-> Str(<<" ", "0", "X">> \o UsdcDigits), to |-> Str(ToLowerCase(PayTo)),
         value |-> Num(500000), validAfter |-> Num(0),
         validBefore |-> Str(<<"0", "x", "f", "f">>), nonce |-> Str(<<"1", "2", "3">>)])
PartialAuthorization ==
    Obj([from |-> Str(ToLowerCase(Usdc)), to |-> Absent,
         value |-> Str(sPingAmount), validAfter |-> Null,
         validBefore |-> Absent, nonce |-> Num(5)])

\* An authorization whose `from` is an object with a member `toString`.
UnprintableAuthorization ==
    Obj([from |-> Obj([toString |-> Num(1)]), to |-> Str(checksumAddress(PayTo)),
         value |-> Str(sRouteAmount), validAfter |-> Str(<<"0">>),
         validBefore |-> Str(sValidBefore), nonce |-> Str(CanonicalNonce)])

HookAuthorizations ==
    { CanonicalAuthorization, LooseAuthorization, PartialAuthorization,
      Str(<<"a", "b", "c">>) }

HookPermits ==
    { Obj([from |-> Str(ToLowerCase(Usdc)), spender |-> Str(checksumAddress(PayTo)),
           nonce |-> Str(<<"0", "x", "0", "1">>), deadline |-> Str(sValidBefore),
           permitted |-> Obj([token |-> Str(ToLowerCase(Usdc)),
                              amount |-> Str(sRouteAmount)]),
           witness |-> Obj([to |-> Str(ToLowerCase(PayTo)), validAfter |-> Num(0),
                            extra |-> Str(<<"a", "b">>)])]),
      Obj([from |-> Str(checksumAddress(Usdc)), spender |-> Str(checksumAddress(PayTo)),
           nonce |-> Str(<<"1">>), deadline |-> Absent,
           permitted |-> Absent, witness |-> Null]) }

\* The signatures of the payloads: strings plain and wrapped, in several
\* spellings, objects, and none.
HookSignatures ==
    { Str(text) : text \in Spellings(Sig65) \cup Spellings(WrapN(Sig65, 1))
                            \cup { WrapN(Sig65, 2), WrapN(Sig65, MaxWraps), <<>>,
                                   <<Blk("txt", 9, 0)>>,
                                   <<Prefix0x, Blk("hex", 2 * SigDigits, 0)>> } }
    \cup { SigObject(Str(Sig65), Undefined, Undefined, Undefined, Undefined),
           SigObject(Undefined, HexR, HexS, Num(27), Undefined),
           Null, Absent }

HookPayloads ==
    { Payload(authorization, Absent, Absent, signature) :
        authorization \in HookAuthorizations, signature \in HookSignatures }
    \cup { Payload(Absent, permit2Authorization, Absent, signature) :
             permit2Authorization \in HookPermits, signature \in HookSignatures }
    \* both records at once, a permit next to a null authorization, and a
    \* transaction with a signature
    \cup { Payload(LooseAuthorization, permit2Authorization, Absent,
                   Str(WrapN(Sig65, 1))) : permit2Authorization \in HookPermits }
    \cup { Payload(Null, permit2Authorization, Absent, Str(Tail(Sig65))) :
             permit2Authorization \in HookPermits }
    \cup { Payload(Absent, Absent, Str(<<"0", "x", "0", "2">>), Str(Tail(Sig65))) }
    \cup { Payload(UnprintableAuthorization, Absent, Absent, Str(Sig65)) }
    \cup { Payload(Absent, Absent, Str(<<"0", "x", "0", "2">>), Absent),
           Payload(Absent, Absent, Absent, Str(Sig65)),
           Null, Undefined, Str(<<"a", "b", "c">>) }

\* The clock runs from 0 to MaxTime seconds.
MaxTime == 1

ApplyOnBeforeVerify(payload, requirements, currentTimestamp, serializes) ==
    /\ cpc = "idle"
    /\ cfn' = "onBeforeVerify"
    /\ cin' = [paymentPayload |-> PaymentPayload(payload),
               requirements |-> requirements,
               currentTimestamp |-> currentTimestamp, serializes |-> serializes]
    /\ IF onBeforeVerifyThrows(PaymentPayload(payload))
       THEN /\ cout' = Thrown(Label("TypeError"))
            /\ cpc' = "raised"
       ELSE /\ cout' = onBeforeVerify(PaymentPayload(payload), requirements,
                                      currentTimestamp, serializes)
            /\ cpc' = "done"
    /\ UNCHANGED nonCanonVars

NextHook ==
    \/ \E payload \in HookPayloads, requirements \in RouteRequirements,
          currentTimestamp \in 0..MaxTime, serializes \in BOOLEAN :
           ApplyOnBeforeVerify(payload, requirements, currentTimestamp, serializes)
    \/ CanonReturn

SpecHook == InitCanon /\ [][NextHook]_vars

----------------------------------------------------------------------------
(* Claims about the before-verify hook, checked under SpecHook.            *)

\* A signature of the same shape and other content: every run of hex digits
\* or of other characters, and the factory data of every wrapper, replaced.
OtherBlock(b) ==
    CASE b.k \in {"hex", "txt"} -> [b EXCEPT !.v = <<"other", b.v>>]
      [] b.k = "hdr" -> [b EXCEPT !.v.factory = b.v.factory + 100]
      [] OTHER -> b

OtherText(value) ==
    IF value.t = "string"
    THEN Str([i \in 1..Len(value.s) |-> OtherBlock(value.s[i])])
    ELSE value

OtherSignature(signature) ==
    IF signature.t = "object" /\ "arr" \in DOMAIN signature /\ ~signature.arr
    THEN [signature EXCEPT !.signature = OtherText(signature.signature),
                           !.r = OtherText(signature.r),
                           !.s = OtherText(signature.s)]
    ELSE OtherText(signature)

\* The payment payload with its signature replaced by the other one.
OtherPaymentPayload(paymentPayload) ==
    IF IsObject(paymentPayload.payload)
    THEN [paymentPayload EXCEPT
             !.payload.f.signature = OtherSignature(paymentPayload.payload.f.signature)]
    ELSE paymentPayload

\* The values held by the logged record and by its summaries.
Leaves(record) ==
    { record[k] : k \in DOMAIN record }
    \cup UNION { { record[k].f[j] : j \in DOMAIN record[k].f } :
                   k \in { k \in DOMAIN record : IsObject(record[k]) } }

\* The fields of a payload that hold addresses, with the field of the
\* summary that reports each.
AddressFields ==
    { [in |-> <<"authorization", "from">>, summary |-> "authSummary", as |-> "from"],
      [in |-> <<"authorization", "to">>, summary |-> "authSummary", as |-> "to"],
      [in |-> <<"permit2Authorization", "from">>, summary |-> "permit2Summary",
       as |-> "from"],
      [in |-> <<"permit2Authorization", "spender">>, summary |-> "permit2Summary",
       as |-> "spender"],
      [in |-> <<"permit2Authorization", "permitted", "token">>,
       summary |-> "permit2Summary", as |-> "permittedToken"],
      [in |-> <<"permit2Authorization", "witness", "to">>,
       summary |-> "permit2Summary", as |-> "witnessTo"] }

\* The value at a path of properties, undefined where the path leaves the
\* objects.
RECURSIVE AtPath(_, _)
AtPath(value, path) ==
    IF path = <<>> THEN value ELSE AtPath(Prop(value, Head(path)), Tail(path))

IsAddressValue(value) == value.t = "string" /\ SpellsAddress(value.s)

\* The first 6 and the last 4 characters of an address.
FirstSixLastFour(value) ==
    Str(SubSeq(value.s, 1, 6) \o <<".", ".", ".">>
        \o SubSeq(value.s, Len(value.s) - 3, Len(value.s)))

HookEnded == cpc = "done" /\ cfn = "onBeforeVerify"

\* The payload body the hook was given and the one it left.
BodyBefore == cin.paymentPayload.payload
BodyAfter == cout.paymentPayload.payload

\* The member after a normalizer has run on it: its normal form when the
\* normalizer reports a change, the member itself otherwise.
AfterNormalizer(member, normalized, changed) ==
    IF changed THEN normalized ELSE member

\* C25: the hook runs the authorization normalizer when payload.authorization
\* is truthy, also next to a permit; otherwise the permit normalizer when
\* payload.permit2Authorization is truthy; otherwise none; never both.  The
\* signature is normalized whenever the payload object has a signature key,
\* and a transaction is left as it is.
C25_AtMostOneRecordNormalizer ==
    (HookEnded /\ IsObject(BodyBefore))
    => LET authRuns == Truthy(Get(BodyBefore, "authorization"))
           permitRuns == ~authRuns /\ Truthy(Get(BodyBefore, "permit2Authorization"))
           auth == normalizeAuthorizationPayload(Get(BodyBefore, "authorization"))
           permit == normalizePermit2AuthorizationPayload(
                         Get(BodyBefore, "permit2Authorization"))
           sig == normalizeSignaturePayload(Get(BodyBefore, "signature"), cin.serializes)
       IN  /\ BodyAfter.f.authorization =
                 (IF authRuns
                  THEN AfterNormalizer(BodyBefore.f.authorization, auth.auth, auth.changed)
                  ELSE BodyBefore.f.authorization)
           /\ cout.record.authWasNormalized = Bool(authRuns /\ auth.changed)
           /\ BodyAfter.f.permit2Authorization =
                 (IF permitRuns
                  THEN AfterNormalizer(BodyBefore.f.permit2Authorization,
                                       permit.permit2Authorization, permit.changed)
                  ELSE BodyBefore.f.permit2Authorization)
           /\ cout.record.permit2WasNormalized = Bool(permitRuns /\ permit.changed)
           /\ BodyAfter.f.transaction = BodyBefore.f.transaction
           /\ BodyAfter.f.signature =
                 (IF BodyBefore.f.signature # Absent
                  THEN AfterNormalizer(BodyBefore.f.signature, sig.signature, sig.changed)
                  ELSE Absent)
           /\ cout.record.signatureWasNormalized =
                 Bool(BodyBefore.f.signature # Absent /\ sig.changed)

\* A payload with an authorization and a permit, both away from their normal
\* form: the authorization and the signature were rewritten, the permit was
\* not.
C25_Witness ==
    /\ HookEnded
    /\ IsObject(BodyBefore)
    /\ BodyBefore.f.authorization = LooseAuthorization
    /\ IsObject(BodyBefore.f.permit2Authorization)
    /\ normalizePermit2AuthorizationPayload(BodyBefore.f.permit2Authorization).changed
    /\ BodyAfter.f.authorization # BodyBefore.f.authorization
    /\ BodyAfter.f.permit2Authorization = BodyBefore.f.permit2Authorization
    /\ BodyAfter.f.signature = Str(Sig65)
    /\ cout.record.payloadType = Label("authorization")

\* A copy that spreads the record alone: `permitted` and `witness` stay the
\* argument's own objects.
CopiedPartsRecordOnly(kind) == {"record"}

\* The objects of the argument that the normalizer copies before it writes:
\* the record ({ ...auth }, line 256; { ...permit2Authorization }, line
\* 448) and, for a permit, `permitted` and `witness` (lines 449-456).
CopiedParts(kind) ==
    IF kind = "authorization" THEN {"record"}
    ELSE {"record", "permitted", "witness"}

\* The argument of a normalizer once it has returned `normalized`: the
\* writes of the normalizer land in the argument's objects that were not
\* copied.
ArgumentAfter(kind, argument, normalized) ==
    IF ~IsObject(argument) THEN argument
    ELSE IF "record" \notin CopiedParts(kind) THEN normalized
    ELSE IF kind = "authorization" THEN argument
    ELSE [argument EXCEPT
            !.f.permitted = IF IsObject(@) /\ "permitted" \notin CopiedParts(kind)
                            THEN normalized.f.permitted ELSE @,
            !.f.witness = IF IsObject(@) /\ "witness" \notin CopiedParts(kind)
                          THEN normalized.f.witness ELSE @]

\* C26: the record given to normalizeAuthorizationPayload or to
\* normalizePermit2AuthorizationPayload, with its permitted and witness
\* records, is after the call what it was before; the hook replaces
\* payload.authorization, payload.permit2Authorization and payload.signature
\* only when the matching changed flag is true, and then by the normal form,
\* and leaves every other member of the payment payload as it was.
C26_NormalizersCopyHookReplacesOnChange ==
    HookEnded
    => /\ cout.paymentPayload.x402Version = cin.paymentPayload.x402Version
       /\ cout.paymentPayload.accepted = cin.paymentPayload.accepted
       /\ DOMAIN cout.paymentPayload = DOMAIN cin.paymentPayload
       /\ ~IsObject(BodyBefore) => BodyAfter = BodyBefore
       /\ IsObject(BodyBefore) =>
            LET authorization == Get(BodyBefore, "authorization")
                permit2Authorization == Get(BodyBefore, "permit2Authorization")
                auth == normalizeAuthorizationPayload(authorization)
                permit == normalizePermit2AuthorizationPayload(permit2Authorization)
                sig == normalizeSignaturePayload(Get(BodyBefore, "signature"),
                                                 cin.serializes)
            IN  /\ ArgumentAfter("authorization", authorization, auth.auth)
                       = authorization
                /\ ArgumentAfter("permit2Authorization", permit2Authorization,
                                 permit.permit2Authorization) = permit2Authorization
                /\ DOMAIN BodyAfter.f = DOMAIN BodyBefore.f
                /\ BodyAfter.f.transaction = BodyBefore.f.transaction
                /\ BodyAfter.f.authorization # BodyBefore.f.authorization
                     => /\ cout.record.authWasNormalized = Bool(TRUE)
                        /\ auth.changed
                        /\ BodyAfter.f.authorization = auth.auth
                /\ BodyAfter.f.permit2Authorization # BodyBefore.f.permit2Authorization
                     => /\ cout.record.permit2WasNormalized = Bool(TRUE)
                        /\ permit.changed
                        /\ BodyAfter.f.permit2Authorization = permit.permit2Authorization
                /\ BodyAfter.f.signature # BodyBefore.f.signature
                     => /\ cout.record.signatureWasNormalized = Bool(TRUE)
                        /\ sig.changed
                        /\ BodyAfter.f.signature = sig.signature

\* A permit whose token inside `permitted` was rewritten: the payload holds
\* the normal form, with another `permitted` record than the one received.
C26_Witness ==
    /\ HookEnded
    /\ IsObject(BodyBefore)
    /\ IsObject(BodyBefore.f.permit2Authorization)
    /\ IsObject(BodyBefore.f.permit2Authorization.f.permitted)
    /\ cout.record.permit2WasNormalized = Bool(TRUE)
    /\ BodyAfter.f.permit2Authorization.f.permitted
          # BodyBefore.f.permit2Authorization.f.permitted
    /\ BodyAfter.f.permit2Authorization.f.permitted.f.token = Str(checksumAddress(Usdc))

\* C27: the before-verify hook ends without raising for every payment
\* payload that JSON can carry, whatever the types of its members.
C27_BeforeVerifyNeverRaises ==
    cfn = "onBeforeVerify" => cpc # "raised"

----------------------------------------------------------------------------
(* Requests in flight.  The resource server of the library runs, for each  *)
(* request, the before-verify hook, verify on the composed client, the     *)
(* route's handler and settle on the composed client; a failed verify or   *)
(* settle fires the failure hook.  Each step below is the code of this     *)
(* repository that runs between two awaits of one request; steps of the    *)
(* two requests interleave freely.                                         *)

\* An error of a facilitator client with the members formatX402Error reads.
FacilitatorError(oid, reason, message, payer) ==
    [t |-> "object", oid |-> oid, name |-> Str(<<"E", "r", "r", "o", "r">>),
     message |-> message, statusCode |-> Num(400), invalidReason |-> reason,
     invalidMessage |-> Undefined, errorReason |-> Undefined,
     errorMessage |-> Undefined, payer |-> payer]

sUnknownError == <<"U", "n", "k", "n", "o", "w", "n", " ", "e", "r", "r", "o", "r">>

\* formatX402Error, src/index.js:146-160
formatX402Error(error) ==
    IF ~Truthy(error) THEN Obj([message |-> Str(sUnknownError)])
    ELSE Obj([name |-> Member(error, "name"),
              message |-> Member(error, "message"),
              statusCode |-> Member(error, "statusCode"),
              invalidReason |-> Member(error, "invalidReason"),
              invalidMessage |-> Member(error, "invalidMessage"),
              errorReason |-> Member(error, "errorReason"),
              errorMessage |-> Member(error, "errorMessage"),
              payer |-> Member(error, "payer")])

\* console.warn of lines 93-96 and 116-119
RetryWarning(op, error) ==
    [event |-> Label("x402_" \o op \o "_retry_with_fallback_facilitator"),
     fallbackUrl |-> Label("fallbackUrl"),
     reason |-> IF Truthy(Member(error, "invalidReason"))
                THEN Member(error, "invalidReason") ELSE Member(error, "message")]

\* console.error of lines 100-104 and 123-127
FallbackFailed(op, error, fallbackError) ==
    [event |-> Label("x402_" \o op \o "_fallback_failed"),
     fallbackUrl |-> Label("fallbackUrl"),
     primaryError |-> formatX402Error(error),
     fallbackError |-> formatX402Error(fallbackError)]

\* The failure hooks, lines 730-738 and 893-901
FailureRecord(op, error, requirements) ==
    [event |-> Label("x402_" \o op \o "_failure"),
     network |-> requirements.network,
     scheme |-> requirements.scheme,
     payTo |-> requirements.payTo,
     amount |-> requirements.amount,
     error |-> formatX402Error(error)]

\* What the two clients answer to the calls of a request.
Payer == Str(checksumAddress(Usdc))
VerifyResponse == Obj([isValid |-> Bool(TRUE), payer |-> Payer])
PrimaryAnswers ==
    { Returned(VerifyResponse),
      Thrown(FacilitatorError(1, Str(sInvalidPayload), Str(sFailedToFetch), Payer)),
      Thrown(FacilitatorError(2, Str(sInsufficientFunds), Str(sInsufficientFunds), Payer)) }
FallbackAnswers ==
    { Returned(VerifyResponse),
      Thrown(FacilitatorError(101, Str(sInsufficientFunds), Str(sInsufficientFunds), Payer)),
      Thrown(Null) }

\* The requests: a payment payload with the requirements of its route.
Requests ==
    { [payload |-> Payload(LooseAuthorization, Absent, Absent, Str(WrapN(Sig65, 1))),
       requirements |-> [network |-> Str(sBase), scheme |-> Str(sExact),
                         payTo |-> Str(PayTo), amount |-> Str(sRouteAmount),
                         assetTransferMethod |-> Str(sEip3009)]],
      [payload |-> Payload(CanonicalAuthorization, Absent, Absent, Str(Sig65)),
       requirements |-> [network |-> Str(sBase), scheme |-> Str(sExact),
                         payTo |-> Str(PayTo), amount |-> Str(sPingAmount),
                         assetTransferMethod |-> Undefined]] }

\* The clock of the hook while the requests are in flight.
RequestTimes == {0}

\* The payment middleware has decoded the payment of request r.
Arrive(r, request) ==
    /\ rq[r].pc = "idle"
    /\ rq' = [rq EXCEPT ![r] =
                [@ EXCEPT !.pc = "arrived", !.op = "verify",
                          !.received = PaymentPayload(request.payload),
                          !.paymentPayload = PaymentPayload(request.payload),
                          !.requirements = request.requirements]]
    /\ UNCHANGED nonReqVars

\* The before-verify hook runs on the payload of request r (lines 740-891).
BeforeVerify(r, currentTimestamp, serializes) ==
    /\ rq[r].pc = "arrived"
    /\ LET hook == onBeforeVerify(rq[r].paymentPayload, rq[r].requirements,
                                  currentTimestamp, serializes)
       IN  rq' = [rq EXCEPT ![r] =
                    [@ EXCEPT !.pc = "hooked",
                              !.paymentPayload = hook.paymentPayload,
                              !.log = Append(@, hook.record)]]
    /\ UNCHANGED nonReqVars

\* The arguments given to the fallback client, taken from what request 1
\* carries.
RequestArgsOfFirst(r) == <<rq[1].paymentPayload, rq[1].requirements>>

\* The arguments of the calls of request r on the clients: its payment
\* payload and its requirements (lines 88, 98, 111, 121).
RequestArgs(r) == <<rq[r].paymentPayload, rq[r].requirements>>

\* verify or settle is called on the composed client, which calls the
\* primary client (lines 86-88, 109-111).
CallComposed(r) ==
    /\ rq[r].pc \in {"hooked", "handled"}
    /\ rq' = [rq EXCEPT ![r] =
                [@ EXCEPT !.pc = "primary", !.answers = <<>>, !.out = Pending,
                          !.calls = Append(@, Call("primary", rq[r].op, RequestArgs(r)))]]
    /\ UNCHANGED nonReqVars

\* The primary client answers request r (lines 88-98, 111-121).
PrimaryAnswersRequest(r, answer) ==
    /\ rq[r].pc = "primary"
    /\ rq' = [rq EXCEPT ![r] =
                IF answer.kind = "return"
                THEN [@ EXCEPT !.pc = "returned", !.out = answer,
                               !.answers = Append(@, answer)]
                ELSE IF shouldFallbackForFacilitatorError(answer.error)
                THEN [@ EXCEPT !.pc = "fallback",
                               !.answers = Append(@, answer),
                               !.log = Append(@, RetryWarning(rq[r].op, answer.error)),
                               !.calls = Append(@, Call("fallback", rq[r].op,
                                                        RequestArgs(r)))]
                ELSE [@ EXCEPT !.pc = "thrown", !.out = answer,
                               !.answers = Append(@, answer)]]
    /\ UNCHANGED nonReqVars

\* The fallback client answers request r (lines 98-106, 121-129).
FallbackAnswersRequest(r, answer) ==
    /\ rq[r].pc = "fallback"
    /\ rq' = [rq EXCEPT ![r] =
                IF answer.kind = "return"
                THEN [@ EXCEPT !.pc = "returned", !.out = answer,
                               !.answers = Append(@, answer)]
                ELSE [@ EXCEPT !.pc = "thrown", !.out = answer,
                               !.answers = Append(@, answer),
                               !.log = Append(@, FallbackFailed(rq[r].op,
                                                     rq[r].answers[1].error,
                                                     answer.error))]]
    /\ UNCHANGED nonReqVars

\* verify or settle of request r has failed: the failure hook (lines
\* 730-738, 893-901).
FailureHook(r) ==
    /\ rq[r].pc = "thrown"
    /\ rq' = [rq EXCEPT ![r] =
                [@ EXCEPT !.pc = "done",
                          !.log = Append(@, FailureRecord(rq[r].op, rq[r].out.error,
                                                          rq[r].requirements))]]
    /\ UNCHANGED nonReqVars

\* verify of request r has returned: the handler of the route runs
\* (lines 903-905, 923-966), and settle comes next.
Handler(r) ==
    /\ rq[r].pc = "returned" /\ rq[r].op = "verify"
    /\ rq' = [rq EXCEPT ![r] = [@ EXCEPT !.pc = "handled", !.op = "settle"]]
    /\ UNCHANGED nonReqVars

\* settle of request r has returned.
Settled(r) ==
    /\ rq[r].pc = "returned" /\ rq[r].op = "settle"
    /\ rq' = [rq EXCEPT ![r] = [@ EXCEPT !.pc = "done"]]
    /\ UNCHANGED nonReqVars

NextReq ==
    \/ \E r \in RequestIds, request \in Requests : Arrive(r, request)
    \/ \E r \in RequestIds, currentTimestamp \in RequestTimes, serializes \in BOOLEAN :
           BeforeVerify(r, currentTimestamp, serializes)
    \/ \E r \in RequestIds : CallComposed(r)
    \/ \E r \in RequestIds, answer \in PrimaryAnswers : PrimaryAnswersRequest(r, answer)
    \/ \E r \in RequestIds, answer \in FallbackAnswers : FallbackAnswersRequest(r, answer)
    \/ \E r \in RequestIds : FailureHook(r)
    \/ \E r \in RequestIds : Handler(r)
    \/ \E r \in RequestIds : Settled(r)

SpecReq == InitFac /\ [][NextReq]_vars

----------------------------------------------------------------------------
(* Claims about the requests in flight, checked under SpecReq.             *)

\* The records logged by the composed client and by the failure hooks.
ClientAndFailureEvents ==
    { "x402_" \o op \o suffix :
        op \in {"verify", "settle"},
        suffix \in {"_retry_with_fallback_facilitator", "_fallback_failed", "_failure"} }

ClientAndFailureRecords ==
    UNION { { rq[r].log[i] : i \in { i \in 1..Len(rq[r].log) :
                                       rq[r].log[i].event.name \in ClientAndFailureEvents } } :
            r \in RequestIds }

\* The values of the payment payload of a request, as received and as
\* normalized.
PayloadContent(r) ==
    UNION { { paymentPayload.payload.f[k] : k \in DOMAIN paymentPayload.payload.f }
            \cup { paymentPayload.payload.f.authorization.f[k] :
                     k \in DOMAIN paymentPayload.payload.f.authorization.f } :
            paymentPayload \in {rq[r].received, rq[r].paymentPayload} \ {Null} }

\* C20: every record logged by the composed client (retry warning,
\* fallback-failed error) and by the verify and settle failure hooks holds
\* no value of a payment payload and no unmasked address: neither the payer
\* reported by a facilitator error nor the payee appears in full.
C20_ClientAndFailureRecordsMasked ==
    \A record \in ClientAndFailureRecords :
        \A leaf \in Leaves(record) :
            /\ ~IsAddressValue(leaf)
            /\ \A r \in RequestIds : leaf \notin (PayloadContent(r) \ {Absent, Undefined})

\* What the composed client gives for the answers of its clients when the
\* call runs alone (lines 86-106).
AloneOutcome(answers) ==
    IF answers = <<>> THEN Pending
    ELSE IF answers[1].kind = "return" THEN answers[1]
    ELSE IF ~shouldFallbackForFacilitatorError(answers[1].error) THEN answers[1]
    ELSE IF Len(answers) = 1 THEN Pending
    ELSE answers[2]

\* Request r is as if it ran alone: its payload is what the hook makes of
\* the payload it arrived with, every call on a client carries its own
\* payload and requirements, and the outcome of verify or settle is the one
\* its own answers give.
RunsAsAlone(r) ==
    /\ rq[r].pc \in {"idle", "arrived"} =>
         /\ rq[r].paymentPayload = rq[r].received
         /\ rq[r].calls = <<>> /\ rq[r].log = <<>>
    /\ rq[r].pc \notin {"idle", "arrived"} =>
         \E currentTimestamp \in RequestTimes, serializes \in BOOLEAN :
            LET alone == onBeforeVerify(rq[r].received, rq[r].requirements,
                                        currentTimestamp, serializes)
            IN  /\ rq[r].paymentPayload = alone.paymentPayload
                /\ rq[r].log[1] = alone.record
    /\ \A i \in 1..Len(rq[r].calls) :
          rq[r].calls[i].args = <<rq[r].paymentPayload, rq[r].requirements>>
    /\ rq[r].pc \in {"primary", "fallback", "returned", "thrown"} =>
          rq[r].out = AloneOutcome(rq[r].answers)

\* A step of one request leaves the other request as it was.
StepOfOneRequest ==
    \A r \in RequestIds :
        rq'[r] # rq[r] => \A other \in RequestIds \ {r} : rq'[other] = rq[other]

\* C14: under every interleaving of the steps of two requests (the
\* before-verify hook, the calls on the primary and the fallback client,
\* their answers), each request has the normalized payload and the verify
\* or settle outcome it has when it runs alone, and no step of one request
\* changes what the other holds.
C14_RequestsIndependent ==
    /\ [](\A r \in RequestIds : RunsAsAlone(r))
    /\ [][StepOfOneRequest]_vars

\* The two requests are in flight with different payloads: the first waits
\* for the fallback client with its signature unwrapped, the second for the
\* primary client.
C14_Witness ==
    /\ rq[1].pc = "fallback" /\ rq[2].pc = "primary"
    /\ rq[1].received # rq[2].received
    /\ rq[1].paymentPayload # rq[1].received
    /\ rq[1].paymentPayload.payload.f.signature = Str(Sig65)
    /\ rq[2].paymentPayload # rq[1].paymentPayload
    /\ Len(rq[1].calls) = 2 /\ Len(rq[2].calls) = 1

=============================================================================
